---------------------------- MODULE Spec2Model ----------------------------
(***************************************************************************)
(* State-machine model of the ODP bootstrap engines of bootstrap_animation *)
(* (bootstrap_engine.py, the engine the application imports, and           *)
(* bootstrap_engine_old.py, the hand-written engine it replaced).          *)
(*                                                                         *)
(* Numbers.  The engines compute in floating point.  The model computes    *)
(* exactly: a rational is a pair <<n, d>> in lowest terms with d > 0, and  *)
(* a value of the engine is a record [a, b] standing for  a + b * sqrt(q)  *)
(* where q = n / df is the radicand of the old engine's degrees-of-freedom *)
(* adjustment (the only irrational the engines introduce).  Fitted values  *)
(* are drawn from perfect squares (and 0, -1), so sqrt(fitted) is exact.   *)
(***************************************************************************)
EXTENDS Integers, Sequences, FiniteSets, TLC

VARIABLES
    impl,               \* "old" (bootstrap_engine_old.py) or "new" (bootstrap_engine.py)
    random_state,       \* self.random_state
    n_origin,           \* triangle.shape[2]
    n_dev,              \* triangle.shape[3]
    actual,             \* self.actual_incremental.values[0, 0]
    fitted,             \* self.fitted_incremental.values[0, 0]
    residual_pool,      \* self.residual_pool
    df,                 \* self.df (old engine; "unset" in the new one)
    scale_parameter,    \* self.scale_parameter
    iteration_details,  \* self.iteration_details
    reserve_estimates,  \* self.reserve_estimates
    rng,                \* numpy's process-wide generator: [seed, pos]
    gen,                \* which pseudo-random stream family the run uses
    lastCall,           \* the last operation called: [op, arg]
    returned,           \* what the last operation returned
    raised,             \* the exception the last operation ended with, or "none"
    firstResult,        \* history: the first result produced for each iteration index
    fit_fails,          \* the iterations whose synthetic triangle the fit rejects
    store,              \* dcc.Store 'iteration-store': its data, in the browser
    play_button,        \* 'play-button': [children, color]
    interval_disabled,  \* 'interval-component': disabled
    n_iterations_slider,\* 'n-iterations-slider': value
    show_cell_anim,     \* 'show-cell-animation': TRUE for ['show'], FALSE for []
    pending,            \* the callbacks Dash has still to run for a changed store
    triggered_id,       \* ctx.triggered_id, as the last callback that reads it found it
    shown               \* what update_visualization last put on the page

vars == <<impl, random_state, n_origin, n_dev, actual, fitted, residual_pool,
          df, scale_parameter, iteration_details, reserve_estimates, rng, gen,
          lastCall, returned, raised, firstResult, fit_fails,
          store, play_button, interval_disabled, n_iterations_slider,
          show_cell_anim, pending, triggered_id, shown>>

-----------------------------------------------------------------------------
(* Bounds of the model.                                                    *)

MaxN == 3          \* triangles are N x N with 2 <= N <= MaxN
MaxIter == 2       \* iteration indexes 0 .. MaxIter-1, run_bootstrap(1 .. MaxIter)
MaxDetails == 2    \* the old engine appends without limit; the model stops here
MaxSeed == 0       \* random_state ranges over DefaultSeed .. DefaultSeed + MaxSeed
MaxGen == 0        \* pseudo-random stream families 0 .. MaxGen

-----------------------------------------------------------------------------
(* Exact rational arithmetic.                                              *)

Abs(x) == IF x < 0 THEN -x ELSE x

RECURSIVE GCD(_, _)
GCD(x, y) == IF y = 0 THEN x ELSE GCD(y, x % y)

RNorm(n, d) ==
    LET g == GCD(Abs(n), Abs(d))
        s == IF d < 0 THEN -1 ELSE 1
    IN  <<(s * n) \div g, (s * d) \div g>>

RInt(n) == <<n, 1>>
RAdd(x, y) == RNorm(x[1] * y[2] + y[1] * x[2], x[2] * y[2])
RSub(x, y) == RNorm(x[1] * y[2] - y[1] * x[2], x[2] * y[2])
RMul(x, y) == RNorm(x[1] * y[1], x[2] * y[2])
RDiv(x, y) == RNorm(x[1] * y[2], x[2] * y[1])
RSign(x) == IF x[1] > 0 THEN 1 ELSE IF x[1] < 0 THEN -1 ELSE 0
RLess(x, y) == RSign(RSub(x, y)) < 0
RAbs(x) == <<Abs(x[1]), x[2]>>

(* Values a + b * sqrt(q).                                                 *)
Val(a, b) == [a |-> a, b |-> b]
VInt(n) == Val(RInt(n), RInt(0))
VRat(x) == Val(x, RInt(0))
VAdd(v, w) == Val(RAdd(v.a, w.a), RAdd(v.b, w.b))
VSub(v, w) == Val(RSub(v.a, w.a), RSub(v.b, w.b))
VScale(v, x) == Val(RMul(v.a, x), RMul(v.b, x))

\* The sign of a + b * sqrt(q), q >= 0 rational, decided by comparing squares.
VSign(v, q) ==
    LET sa == RSign(v.a)
        sb == IF RSign(q) = 0 THEN 0 ELSE RSign(v.b)
        a2 == RMul(v.a, v.a)
        b2q == RMul(RMul(v.b, v.b), q)
    IN  IF sb = 0 THEN sa
        ELSE IF sa = 0 THEN sb
        ELSE IF sa = sb THEN sa
        ELSE IF RLess(b2q, a2) THEN sa
        ELSE IF RLess(a2, b2q) THEN sb
        ELSE 0

VEq(v, w, q) == VSign(VSub(v, w), q) = 0
VLeq(v, w, q) == VSign(VSub(v, w), q) <= 0

RECURSIVE VSum(_)
VSum(s) == IF s = <<>> THEN VInt(0) ELSE VAdd(Head(s), VSum(Tail(s)))

\* np.sqrt on the values the model feeds it: perfect squares.
ISqrt(n) == CHOOSE r \in 0..n : r * r = n


-----------------------------------------------------------------------------
(* Triangles.  A triangle is a function on Cells(no, nd); a cell (i, j) is *)
(* observed iff i + j < n_origin.  Unobserved cells of the actual triangle *)
(* hold NaN, as chainladder's Triangle.values do.                          *)

\* NaN is the rational 0/0 (and the value with that real part); None is a
\* record of its own, so that it compares with results without a type clash.
RNaN == <<0, 0>>
VNaN == Val(RNaN, RNaN)
None == [none |-> TRUE]

Cells(no, nd) == (0..(no - 1)) \X (0..(nd - 1))

\* for i in range(n_origin): for j in range(n_dev): ...   (row-major)
CellSeq(no, nd) == [k \in 1..(no * nd) |-> <<(k - 1) \div nd, (k - 1) % nd>>]

Observed(no, c) == c[1] + c[2] < no

ObservedCells(no, nd) == {c \in Cells(no, nd) : Observed(no, c)}

\* What one observed cell of the input can be: <<fitted, actual>>.
\*   <<0, 1>>   fitted value 0                 (division by zero, nan_to_num)
\*   <<-1, 1>>  fitted value negative
\*   <<1, 2>>   standardized residual +1
\*   <<4, 0>>   standardized residual -2
\*   <<4, 4>>   actual = fitted, residual exactly 0
CellChoices == {<<0, 1>>, <<-1, 1>>, <<1, 2>>, <<4, 0>>, <<4, 4>>}

\* Triangles larger than 2 x 2 draw their cells from three of the five.
LargeCellChoices == {<<0, 1>>, <<1, 2>>, <<4, 0>>}

ChoicesFor(n) == IF n = 2 THEN CellChoices ELSE LargeCellChoices

RECURSIVE RowSum(_, _, _)
RowSum(f, i, j) == IF j < 0 THEN 0 ELSE f[<<i, j>>] + RowSum(f, i, j - 1)

\* The fitted value of an unobserved cell.  Old engine: fitted_cumulative is
\* zero beyond the latest diagonal, so np.diff gives minus the row's latest
\* fitted cumulative value in the first unobserved column and 0 after it.
\* New engine: the base model's full expectation, a positive projection.
FutureFitted(im, obs, no, i, j) ==
    IF im = "old"
    THEN IF j = no - i THEN -RowSum([c \in DOMAIN obs |-> obs[c][1]], i, j - 1) ELSE 0
    ELSE 1

FittedOf(im, obs, no, nd) ==
    [c \in Cells(no, nd) |->
        IF Observed(no, c) THEN obs[c][1] ELSE FutureFitted(im, obs, no, c[1], c[2])]

ActualOf(obs, no, nd) ==
    [c \in Cells(no, nd) |-> IF Observed(no, c) THEN RInt(obs[c][2]) ELSE RNaN]

-----------------------------------------------------------------------------
(* Residuals.                                                              *)

\* (actual - fitted) / np.sqrt(fitted) followed by np.nan_to_num(nan=0,
\* posinf=0, neginf=0): the old engine takes sqrt(fitted), NaN for a negative
\* fitted value; the new one takes sqrt(|fitted|).  A fitted value of 0 divides
\* by zero (inf or nan, silenced by np.errstate) and is zero-filled.
UnscaledResidual(im, a, f) ==
    IF a = RNaN THEN RInt(0)
    ELSE IF f = 0 THEN RInt(0)
    ELSE IF f < 0 /\ im = "old" THEN RInt(0)
    ELSE RDiv(RSub(a, RInt(f)), RInt(ISqrt(Abs(f))))

UnscaledResiduals(im, act, fit) ==
    [c \in DOMAIN act |-> UnscaledResidual(im, act[c], fit[c])]

\* The test that admits cell c to the pool (the same in both engines):
\* i + j < n_origin and fitted[i, j] > 0 and residual != 0.
InResidualPoolNoFittedTest(no, fit, res, c) ==
    /\ c[1] + c[2] < no
    /\ res[c] # RInt(0)

InResidualPoolKeepsZero(no, fit, res, c) ==
    /\ c[1] + c[2] < no
    /\ fit[c] > 0

InResidualPool(no, fit, res, c) ==
    /\ c[1] + c[2] < no
    /\ fit[c] > 0
    /\ res[c] # RInt(0)

PoolCells(no, nd, fit, res) ==
    SelectSeq(CellSeq(no, nd), LAMBDA c : InResidualPool(no, fit, res, c))

\* self.df = max(n - p, 1)
DegreesOfFreedomNoFloor(n, p) == n - p

DegreesOfFreedom(n, p) == IF n - p > 1 THEN n - p ELSE 1

\* The radicand q of adjustment = np.sqrt(n / self.df).
Radicand(n, d) == RNorm(n, d)

\* adjustment = np.sqrt(n / self.df), as a value: 0 + 1 * sqrt(q).
Adjustment == Val(RInt(0), RInt(1))

\* np.mean of a non-empty list of values.
MeanSkipped(vs) == VInt(0)

Mean(vs) == VScale(VSum(vs), RNorm(1, Len(vs)))

\* Old engine, _calculate_residuals: scale by the adjustment, then centre.
CalculateResiduals(no, nd, fit, res) ==
    LET cs == PoolCells(no, nd, fit, res)
        scaled == [k \in 1..Len(cs) |-> VScale(Adjustment, res[cs[k]])]
        mean_adjusted == IF Len(cs) = 0 THEN VNaN ELSE Mean(scaled)
    IN  [k \in 1..Len(cs) |->
            [origin |-> cs[k][1], dev |-> cs[k][2],
             residual |-> res[cs[k]], fitted |-> fit[cs[k]],
             adjusted_residual |-> VSub(scaled[k], mean_adjusted)]]

RECURSIVE SumSquares(_)
SumSquares(pool) ==
    IF pool = <<>> THEN RInt(0)
    ELSE RAdd(RMul(Head(pool).residual, Head(pool).residual), SumSquares(Tail(pool)))

\* self.scale_parameter = sum(residual ** 2) / self.df
ScaleParameter(pool, d) == RDiv(SumSquares(pool), RInt(d))

\* New engine, _prepare_residual_pool: centre the standardized residuals.
PrepareResidualPool(no, nd, fit, res) ==
    LET cs == PoolCells(no, nd, fit, res)
        vals == [k \in 1..Len(cs) |-> VRat(res[cs[k]])]
        mean_adjusted == IF Len(cs) = 0 THEN VInt(0) ELSE Mean(vals)
    IN  [k \in 1..Len(cs) |->
            [origin |-> cs[k][1], dev |-> cs[k][2],
             standardized_residual |-> res[cs[k]],
             adjusted_residual |-> VSub(vals[k], mean_adjusted)]]

-----------------------------------------------------------------------------
(* Randomness.  numpy's generator is a deterministic function of its seed  *)
(* and of the number of draws made since seeding; the model takes one such *)
(* function per stream family g.                                           *)

\* The number of raw outcomes one draw of the model's generator has.
RandMod == 7

Raw(g, seed, pos) == (3 * seed + (g + 2) * pos + (pos * pos) \div 2 + g) % RandMod

\* np.random.choice(n): an index in range(n) from the process-wide generator.
Choice(g, r, n) == Raw(g, r.seed, r.pos) % n

\* np.random.seed(self.random_state + iteration_num)
ReseedMissing(r, rs, iteration_num) == r

Reseed(r, rs, iteration_num) == [seed |-> rs + iteration_num, pos |-> 0]

\* The residuals chainladder's BootstrapODPSample resamples are its own (the
\* engine never sees them); the model lets it draw from these.
LibResiduals == <<RInt(-3), RInt(-1), RInt(1), RInt(2)>>

\* resampled_triangles.iloc[i], cell number k of the observed cells: a draw
\* of the library's own RandomState(random_state).
LibDraw(g, rs, i, k, ncells) ==
    LibResiduals[(Raw(g, rs, i * ncells + k) % Len(LibResiduals)) + 1]

-----------------------------------------------------------------------------
(* One iteration of the old engine (run_single_iteration).                 *)

\* An optional index: <<>> is None, <<x>> is x.
Some(x) == <<x>>
NoneIdx == <<>>

\* bootstrap_value = max(0, bootstrap_value)
ClampMissing(v, q) == v

Clamp(v, q) == IF VSign(v, q) > 0 THEN v ELSE VInt(0)

\* The cells the old engine samples: i + j < n_origin and fitted[i, j] > 0.
SampledCells(no, nd, fit) ==
    SelectSeq(CellSeq(no, nd), LAMBDA c : c[1] + c[2] < no /\ fit[c] > 0)

PosIn(cs, c) == CHOOSE k \in 1..Len(cs) : cs[k] = c

\* fitted[i, j] + sampled_residual * np.sqrt(fitted[i, j])
BootstrapValue(f, r) == VAdd(VInt(f), VScale(r, RInt(ISqrt(Abs(f)))))

\* np.cumsum(bootstrap_incremental, axis=1)
RECURSIVE CumRow(_, _, _)
CumRow(incr, i, j) ==
    IF j < 0 THEN VInt(0) ELSE VAdd(incr[<<i, j>>], CumRow(incr, i, j - 1))

CumSum(incr) == [c \in DOMAIN incr |-> CumRow(incr, c[1], c[2])]

\* The sampling loop of run_single_iteration from generator state r: the
\* k-th sampled cell takes the k-th draw.
OldSamplingDetails(g, r, no, nd, fit, pool, q) ==
    LET cs == SampledCells(no, nd, fit)
    IN  [k \in 1..Len(cs) |->
            LET sampled == Choice(g, [seed |-> r.seed, pos |-> r.pos + k - 1], Len(pool))
                sampled_residual == pool[sampled + 1].adjusted_residual
            IN  [origin |-> cs[k][1], dev |-> cs[k][2], fitted |-> fit[cs[k]],
                 sampled_residual |-> sampled_residual,
                 sampled_from_origin |-> Some(pool[sampled + 1].origin),
                 sampled_from_dev |-> Some(pool[sampled + 1].dev),
                 bootstrap_value |->
                     Clamp(BootstrapValue(fit[cs[k]], sampled_residual), q),
                 sequence |-> k - 1]]

\* boot_tri.latest_diagonal / the last observed cumulative value of origin i.
Latest(cum, no, i) == cum[<<i, no - 1 - i>>]

\* The future cells whose projected incremental payment is positive (line
\* 203).  The projection is the external fit's; the model takes every
\* unobserved cell of a triangle that holds a payment, none of an all-zero one.
FuturePayments(cum, no, nd, q) ==
    IF \A i \in 0..(no - 1) : VSign(Latest(cum, no, i), q) = 0
    THEN <<>>
    ELSE SelectSeq(CellSeq(no, nd), LAMBDA c : c[1] + c[2] >= no)

\* np.random.gamma(shape, scale): a positive payment drawn from the
\* process-wide generator.
GammaDraw(g, r) == RInt(Raw(g, r.seed, r.pos) + 1)

RECURSIVE RSum(_)
RSum(s) == IF s = <<>> THEN RInt(0) ELSE RAdd(Head(s), RSum(Tail(s)))

\* The reserve of the old engine: reserve += actual_payment over the future
\* cells with a positive projected payment, each payment a Gamma draw.
OldReserve(g, r, cum, no, nd, q) ==
    LET fp == FuturePayments(cum, no, nd, q)
    IN  RSum([m \in 1..Len(fp) |-> GammaDraw(g, [seed |-> r.seed, pos |-> r.pos + m - 1])])

OldIteration(g, r, iteration_num, no, nd, fit, pool, q) ==
    LET sd == OldSamplingDetails(g, r, no, nd, fit, pool, q)
        cs == SampledCells(no, nd, fit)
        incr == [c \in Cells(no, nd) |->
                    IF c[1] + c[2] < no /\ fit[c] > 0
                    THEN sd[PosIn(cs, c)].bootstrap_value
                    ELSE VInt(0)]
        cum == CumSum(incr)
    IN  [iteration |-> iteration_num,
         sampling_details |-> sd,
         bootstrap_incremental |-> incr,
         bootstrap_cumulative |-> cum,
         reserve_estimate |->
             OldReserve(g, [seed |-> r.seed, pos |-> r.pos + Len(cs)], cum, no, nd, q)]

\* np.random.choice(0) raises ValueError: an empty pool and a cell to sample.
OldIterationRaises(no, nd, fit, pool) ==
    Len(pool) = 0 /\ Len(SampledCells(no, nd, fit)) > 0

\* The generator after the sampling loop: one draw per sampled cell.
AfterSampling(r, no, nd, fit) ==
    [seed |-> r.seed, pos |-> r.pos + Len(SampledCells(no, nd, fit))]

\* The generator after an iteration: the Gamma draws follow the sampling.
AfterIteration(r, cum, no, nd, fit, q) ==
    [seed |-> r.seed,
     pos |-> r.pos + Len(SampledCells(no, nd, fit)) + Len(FuturePayments(cum, no, nd, q))]

-----------------------------------------------------------------------------
(* One iteration of the new engine (the body of run_bootstrap's loop).     *)

ObservedSeq(no, nd) == SelectSeq(CellSeq(no, nd), LAMBDA c : c[1] + c[2] < no)

\* boot_tri.cum_to_incr().values[0, 0]: what BootstrapODPSample resampled,
\* fitted + residual * sqrt(|fitted|) on the observed cells (the formula the
\* engine inverts to recover the residual), NaN on the unobserved ones.  The
\* library does not pass the value through max(0, .), nor does the engine.
LibIncremental(g, rs, i, no, nd, fit) ==
    LET os == ObservedSeq(no, nd)
    IN  [c \in Cells(no, nd) |->
            IF c[1] + c[2] < no
            THEN BootstrapValue(fit[c], VRat(LibDraw(g, rs, i, PosIn(os, c) - 1, Len(os))))
            ELSE VNaN]

\* boot_tri.values[0, 0]: the library's cumulative triangle.
LibCumulative(incr, no) ==
    [c \in DOMAIN incr |->
        IF c[1] + c[2] < no THEN CumRow(incr, c[1], c[2]) ELSE VNaN]

\* np.argmin(np.abs(self._residual_adjusted_values - residual_value)): the
\* first index of the least distance.
ArgMin(pool, v) ==
    LET d(k) == RAbs(VSub(pool[k].adjusted_residual, v).a)
    IN  CHOOSE k \in 1..Len(pool) :
            /\ \A m \in 1..Len(pool) : ~RLess(d(m), d(k))
            /\ \A m \in 1..(k - 1) : RLess(d(k), d(m))

\* _find_residual_match: <<match_idx>> or <<>> for (None, None).
FindResidualMatch(pool, v) ==
    IF Len(pool) = 0 THEN NoneIdx ELSE Some(ArgMin(pool, v) - 1)

\* sampled_residual = (bootstrap_value - fitted) / sqrt(|fitted|) if
\* fitted > 0 else 0.0
RecoveredResidual(bv, f) ==
    IF f > 0 THEN VScale(VSub(bv, VInt(f)), RNorm(1, ISqrt(Abs(f)))) ELSE VInt(0)

NewSamplingDetails(incr, no, nd, fit, pool) ==
    LET os == ObservedSeq(no, nd)
    IN  [k \in 1..Len(os) |->
            LET sampled_residual == RecoveredResidual(incr[os[k]], fit[os[k]])
                match == FindResidualMatch(pool, sampled_residual)
            IN  [origin |-> os[k][1], dev |-> os[k][2], fitted |-> fit[os[k]],
                 bootstrap_value |-> incr[os[k]],
                 sampled_from_origin |->
                     IF match = NoneIdx THEN NoneIdx ELSE Some(pool[match[1] + 1].origin),
                 sampled_from_dev |->
                     IF match = NoneIdx THEN NoneIdx ELSE Some(pool[match[1] + 1].dev),
                 sampled_residual |-> sampled_residual,
                 sampled_residual_index |-> match,
                 sequence |-> k - 1]]

\* boot_model.ultimate_ of origin i: the projection of the chain-ladder model
\* fitted to synthetic triangle i.  The fit is external; its result is a
\* function of the triangle, hence of the seed and the index of the sample.
LibUltimate(g, rs, i, no, origin) == RInt(Raw(g, rs + 1, i * no + origin) * 2)

\* The number held by a cell of a triangle (NaN when it holds none).
Number(v) == v.a

\* reserve = ultimate - latest, each summed over the origins.
NewReserveNoLatest(g, rs, i, cum, no) ==
    RSum([k \in 1..no |-> LibUltimate(g, rs, i, no, k - 1)])

NewReserve(g, rs, i, cum, no) ==
    RSub(RSum([k \in 1..no |-> LibUltimate(g, rs, i, no, k - 1)]),
         RSum([k \in 1..no |-> Number(Latest(cum, no, k - 1))]))

NewIteration(g, rs, i, no, nd, fit, pool) ==
    LET incr == LibIncremental(g, rs, i, no, nd, fit)
        cum == LibCumulative(incr, no)
    IN  [iteration |-> i,
         bootstrap_incremental |-> incr,
         bootstrap_cumulative |-> cum,
         reserve_estimate |-> NewReserve(g, rs, i, cum, no),
         sampling_details |-> NewSamplingDetails(incr, no, nd, fit, pool)]

-----------------------------------------------------------------------------
(* The summary of a run (the dictionary run_bootstrap returns).  Reserves  *)
(* are rationals; numpy's reductions are computed exactly.                 *)

\* np.sort: insertion of x into an ascending sequence.
RECURSIVE Insert(_, _)
Insert(x, s) ==
    IF s = <<>> THEN <<x>>
    ELSE IF RLess(Head(s), x) THEN <<Head(s)>> \o Insert(x, Tail(s))
    ELSE <<x>> \o s

RECURSIVE Sorted(_)
Sorted(s) == IF s = <<>> THEN <<>> ELSE Insert(Head(s), Sorted(Tail(s)))

\* np.mean(reserves); NaN for an empty array (numpy warns, it does not raise).
RMean(rs) == IF rs = <<>> THEN RNaN ELSE RMul(RSum(rs), RNorm(1, Len(rs)))

\* np.std(reserves): the square root of the mean squared deviation.  The
\* root is kept symbolic: the record holds the radicand.
RStd(rs) ==
    IF rs = <<>> THEN [sqrt_of |-> RNaN]
    ELSE [sqrt_of |->
            RMean([k \in 1..Len(rs) |->
                      RMul(RSub(rs[k], RMean(rs)), RSub(rs[k], RMean(rs)))])]

\* np.percentile(reserves, q), numpy's default (linear) method: the value at
\* the fractional position q / 100 * (n - 1) of the sorted array.
PercentileOffByOne(rs, q) ==
    LET srt == Sorted(rs)
    IN  IF rs = <<>> THEN RNaN
        ELSE RAdd(srt[1], RMul(RNorm(q * Len(rs), 100), RSub(srt[Len(rs)], srt[1])))

Percentile(rs, q) ==
    LET srt == Sorted(rs)
        pos == RNorm(q * (Len(rs) - 1), 100)
        lo == pos[1] \div pos[2]
        frac == RSub(pos, RInt(lo))
    IN  IF rs = <<>> THEN RNaN
        ELSE IF frac = RInt(0) THEN srt[lo + 1]
        ELSE RAdd(srt[lo + 1], RMul(frac, RSub(srt[lo + 2], srt[lo + 1])))

\* The percentiles the summary reports.
PercentileKeys == {5, 25, 50, 75, 95}

Percentiles(rs) == [q \in PercentileKeys |-> Percentile(rs, q)]

\* np.min(reserves), np.max(reserves) of a non-empty array.
RMin(rs) == Sorted(rs)[1]
RMax(rs) == Sorted(rs)[Len(rs)]

\* The dictionary the old engine's run_bootstrap returns.
OldSummary(n_iterations, reserves, details) ==
    [n_iterations |-> n_iterations,
     reserve_estimates |-> reserves,
     mean |-> RMean(reserves),
     std |-> RStd(reserves),
     percentiles |-> Percentiles(reserves),
     iteration_details |-> details]

\* The dictionary the new engine's run_bootstrap returns.
NewSummary(n_iterations, reserves) ==
    [n_iterations |-> n_iterations,
     reserve_estimates |-> reserves,
     mean |-> RMean(reserves),
     std |-> RStd(reserves),
     min |-> RMin(reserves),
     max |-> RMax(reserves),
     percentiles |-> Percentiles(reserves)]

-----------------------------------------------------------------------------
(* The engine.                                                             *)

Iterations == 0..(MaxIter - 1)

\* random_state: int = 42, the seed every caller passes as well.
DefaultSeed == 42

\* The radicand of the values of the engine: n / df in the old engine; the
\* new engine scales by nothing and its values are rational.
Q == IF impl = "old" THEN Radicand(Len(residual_pool), df) ELSE RInt(0)

Call(op, arg) == [op |-> op, arg |-> arg]

\* The page's components, the ones the callbacks read and write.
uiVars == <<store, play_button, interval_disabled, n_iterations_slider,
            show_cell_anim, pending, triggered_id, shown>>

\* The positions of the iterations slider (10, 20, ... 1000 in the layout),
\* scaled to the runs the model holds, and the position the layout gives it.
SliderValues == 1..MaxIter

SliderInitial == MaxIter

\* dcc.Store(id='iteration-store', data={...}) of the layout.
LayoutStore ==
    [is_playing |-> FALSE, current_iteration |-> 0, current_frame |-> 0,
     n_iterations |-> SliderInitial, bootstrap_complete |-> FALSE]

\* The play button's two faces.
PlayFace == [children |-> "Play", color |-> "success"]

PauseFace == [children |-> "Pause", color |-> "warning"]

\* The empty state of the page: progress-text "Ready to start", no statistics.
ReadyToStart ==
    [progress_text |-> "Ready to start", iteration |-> 0, of |-> 0, cell |-> 0,
     n_cells |-> 0, reserves_so_far |-> <<>>, stats_text |-> ""]

\* The page as the layout describes it, before any callback has run.
PageLoaded ==
    /\ store = LayoutStore
    /\ play_button = PlayFace
    /\ interval_disabled = TRUE
    /\ n_iterations_slider = SliderInitial
    /\ show_cell_anim = TRUE
    /\ pending = {}
    /\ triggered_id = "none"
    /\ shown = ReadyToStart

\* History: keep the first result produced for each iteration index.
Remember(fr, produced) ==
    [i \in DOMAIN fr |->
        IF fr[i] = None /\ \E k \in 1..Len(produced) : produced[k].iteration = i
        THEN produced[CHOOSE k \in 1..Len(produced) :
                        /\ produced[k].iteration = i
                        /\ \A m \in (1..(k - 1)) : produced[m].iteration # i]
        ELSE fr[i]]

\* self.residual_pool as __init__ of engine im leaves it.
PoolOf(im, n, fit, res) ==
    IF im = "old" THEN CalculateResiduals(n, n, fit, res)
    ELSE PrepareResidualPool(n, n, fit, res)

\* The fields AnimatedBootstrapODP.__init__ of engine im sets, on a triangle
\* whose observed cells are obs (the base model's fit is external: the fitted
\* values come with the input).
Construct(im, rs, n, obs) ==
    LET fit == FittedOf(im, obs, n, n)
        act == ActualOf(obs, n, n)
        res == UnscaledResiduals(im, act, fit)
        pool == PoolOf(im, n, fit, res)
        d == IF im = "old" THEN DegreesOfFreedom(Len(pool), n - 1) ELSE "unset"
    IN  [random_state |-> rs, n_origin |-> n, n_dev |-> n,
         actual |-> act, fitted |-> fit, residual_pool |-> pool, df |-> d,
         scale_parameter |-> IF im = "old" THEN ScaleParameter(pool, d) ELSE None]

\* The state after AnimatedBootstrapODP(triangle, random_state=rs) of engine
\* im.  The synthetic triangles the chain-ladder fit rejects are a property of
\* the data and the seed: ff, a set of iteration indexes.
Constructed(im, rs, g, n, obs, ff) ==
            \E e \in {Construct(im, rs, n, obs)} :
                /\ impl = im
                /\ gen = g
                /\ fit_fails = ff
                /\ random_state = e.random_state
                /\ n_origin = e.n_origin
                /\ n_dev = e.n_dev
                /\ actual = e.actual
                /\ fitted = e.fitted
                /\ residual_pool = e.residual_pool
                /\ df = e.df
                /\ scale_parameter = e.scale_parameter
                /\ iteration_details = <<>>
                /\ reserve_estimates = <<>>
                /\ rng = [seed |-> e.random_state, pos |-> 0]
                /\ lastCall = Call("__init__", 0)
                /\ returned = None
                /\ raised = "none"
                /\ firstResult = [i \in Iterations |-> None]
                /\ PageLoaded

\* Engines on every triangle of the model, none of whose synthetic triangles
\* the fit rejects.
Init ==
    \E im \in {"old", "new"}, s \in 0..MaxSeed, g \in 0..MaxGen, n \in 2..MaxN :
        \E obs \in [ObservedCells(n, n) -> ChoicesFor(n)] :
            Constructed(im, DefaultSeed + s, g, n, obs, {})

\* The engine exists: its construction did not raise.
Built == ~(lastCall.op = "__init__" /\ raised # "none")

\* update_dataset: bootstrap_engine.__init__(triangle_data=triangle,
\* random_state=42) on the engine object in use.  The generator is seeded by
\* the old engine's __init__ only.
ReinitialiseEngine(n, obs, ff) ==
    /\ Built
    /\ \E e \in {Construct(impl, DefaultSeed, n, obs)} :
        /\ fit_fails' = ff
        /\ random_state' = e.random_state
        /\ n_origin' = e.n_origin
        /\ n_dev' = e.n_dev
        /\ actual' = e.actual
        /\ fitted' = e.fitted
        /\ residual_pool' = e.residual_pool
        /\ df' = e.df
        /\ scale_parameter' = e.scale_parameter
        /\ iteration_details' = <<>>
        /\ reserve_estimates' = <<>>
        /\ rng' = IF impl = "old" THEN [seed |-> e.random_state, pos |-> 0] ELSE rng
        /\ lastCall' = Call("__init__", 1)
        /\ returned' = None
        /\ raised' = "none"
        /\ firstResult' = [i \in Iterations |-> None]
        /\ UNCHANGED <<impl, gen>>

\* update_dataset writes the dataset's description and no playback component.
Reinitialise(n, obs, ff) == ReinitialiseEngine(n, obs, ff) /\ UNCHANGED uiVars

\* What no operation but __init__ assigns.
FrameClearsPool ==
    /\ residual_pool' = <<>>
    /\ UNCHANGED <<impl, random_state, gen, fit_fails, n_origin, n_dev, actual, fitted, df>>
    /\ UNCHANGED uiVars

Frame ==
    /\ UNCHANGED <<impl, random_state, gen, fit_fails, n_origin, n_dev, actual,
                   fitted, residual_pool, df>>
    /\ UNCHANGED uiVars

\* cl.Chainladder().fit(...) on the synthetic triangle of iteration i raises.
FitFails(i) == i \in fit_fails

\* Old engine, run_single_iteration(iteration_num).
OldRunSingleIteration(iteration_num) ==
    /\ impl = "old"
    /\ Built
    /\ Len(iteration_details) < MaxDetails
    /\ lastCall' = Call("run_single_iteration", iteration_num)
    /\ \E r \in {Reseed(rng, random_state, iteration_num)} :
        IF OldIterationRaises(n_origin, n_dev, fitted, residual_pool)
        THEN /\ raised' = "ValueError"
             /\ returned' = None
             /\ rng' = r
             /\ UNCHANGED <<iteration_details, reserve_estimates, firstResult>>
        ELSE IF FitFails(iteration_num)
        THEN /\ raised' = "FitError"
             /\ returned' = None
             /\ rng' = AfterSampling(r, n_origin, n_dev, fitted)
             /\ UNCHANGED <<iteration_details, reserve_estimates, firstResult>>
        ELSE \E result \in {OldIteration(gen, r, iteration_num, n_origin, n_dev,
                                         fitted, residual_pool, Q)} :
             /\ raised' = "none"
             /\ returned' = result
             /\ rng' = AfterIteration(r, result.bootstrap_cumulative, n_origin, n_dev,
                                      fitted, Q)
             /\ iteration_details' = Append(iteration_details, result)
             /\ reserve_estimates' = Append(reserve_estimates, result.reserve_estimate)
             /\ firstResult' = Remember(firstResult, <<result>>)
    /\ UNCHANGED scale_parameter
    /\ Frame

\* for i in range(n_iterations): self.run_single_iteration(i) -- the results
\* of the iterations before the first one that raises, the generator the loop
\* leaves, and the exception that ended it ("none" when it ran to its end).
RECURSIVE OldLoop(_, _)
OldLoop(r, n) ==
    IF n = 0 THEN [details |-> <<>>, rng |-> r, raised |-> "none"]
    ELSE LET before == OldLoop(r, n - 1)
             seeded == Reseed(before.rng, random_state, n - 1)
         IN  IF before.raised # "none" THEN before
             ELSE IF OldIterationRaises(n_origin, n_dev, fitted, residual_pool)
             THEN [details |-> before.details, rng |-> seeded, raised |-> "ValueError"]
             ELSE IF FitFails(n - 1)
             THEN [details |-> before.details,
                   rng |-> AfterSampling(seeded, n_origin, n_dev, fitted),
                   raised |-> "FitError"]
             ELSE LET result == OldIteration(gen, seeded, n - 1, n_origin, n_dev,
                                             fitted, residual_pool, Q)
                  IN  [details |-> Append(before.details, result),
                       rng |-> AfterIteration(seeded, result.bootstrap_cumulative,
                                              n_origin, n_dev, fitted, Q),
                       raised |-> "none"]

\* self.reserve_estimates: the reserve of each iteration that completed.
ReservesPadded(details) ==
    [k \in 1..(Len(details) + 1) |->
        IF k <= Len(details) THEN details[k].reserve_estimate ELSE RInt(0)]

ReservesOf(details) == [k \in 1..Len(details) |-> details[k].reserve_estimate]

\* np.percentile of an empty array: NaN in some numpy releases, IndexError in
\* others.
EmptyPercentileOutcomes == {"none", "IndexError"}

\* Old engine, run_bootstrap(n_iterations): clear, run the iterations, build
\* the summary (which holds the iteration details themselves).
OldRunBootstrap(n_iterations) ==
    /\ impl = "old"
    /\ Built
    /\ lastCall' = Call("run_bootstrap", n_iterations)
    /\ \E loop \in {OldLoop(rng, n_iterations)} :
        /\ rng' = loop.rng
        /\ iteration_details' = loop.details
        /\ reserve_estimates' = ReservesOf(loop.details)
        /\ firstResult' = Remember(firstResult, loop.details)
        /\ IF loop.raised # "none"
           THEN raised' = loop.raised /\ returned' = None
           ELSE IF n_iterations = 0
           THEN \E outcome \in EmptyPercentileOutcomes :
                    /\ raised' = outcome
                    /\ returned' = IF outcome = "none"
                                   THEN OldSummary(n_iterations, <<>>, <<>>)
                                   ELSE None
           ELSE /\ raised' = "none"
                /\ returned' = OldSummary(n_iterations, ReservesOf(loop.details),
                                          loop.details)
    /\ UNCHANGED scale_parameter
    /\ Frame

\* bootstrap_sample.scale_, the library's scale parameter (its own estimate).
LibScale == [scale_of |-> "BootstrapODPSample"]

\* The loop of the new engine's run_bootstrap: iteration i is sample i of the
\* library; the loop ends at the first sample the chain-ladder fit rejects.
RECURSIVE NewLoop(_)
NewLoop(n) ==
    IF n = 0 THEN [details |-> <<>>, raised |-> "none"]
    ELSE LET before == NewLoop(n - 1)
         IN  IF before.raised # "none" THEN before
             ELSE IF FitFails(n - 1)
             THEN [details |-> before.details, raised |-> "FitError"]
             ELSE [details |->
                      Append(before.details,
                             NewIteration(gen, random_state, n - 1, n_origin, n_dev,
                                          fitted, residual_pool)),
                   raised |-> "none"]

\* BootstrapODPSample(n_sims=0).fit(...): the library may reject the request
\* or return no sample; then np.min of the empty array raises ValueError.
NoSimsOutcomes == {"LibraryError", "ValueError"}

\* The body of the new engine's run_bootstrap(n_iterations): what it leaves
\* in the engine, what it returns and how it ends.
NewBootstrapBody(n_iterations) ==
    IF n_iterations = 0
    THEN \E outcome \in NoSimsOutcomes :
            /\ raised' = outcome
            /\ returned' = None
            /\ IF outcome = "LibraryError"
               THEN UNCHANGED <<scale_parameter, iteration_details, reserve_estimates,
                                firstResult>>
               ELSE /\ scale_parameter' = LibScale
                    /\ iteration_details' = <<>>
                    /\ reserve_estimates' = <<>>
                    /\ UNCHANGED firstResult
    ELSE \E loop \in {NewLoop(n_iterations)} :
            /\ scale_parameter' = LibScale
            /\ iteration_details' = loop.details
            /\ reserve_estimates' = ReservesOf(loop.details)
            /\ firstResult' = Remember(firstResult, loop.details)
            /\ raised' = loop.raised
            /\ returned' = IF loop.raised = "none"
                           THEN NewSummary(n_iterations, ReservesOf(loop.details))
                           ELSE None

\* New engine, run_bootstrap(n_iterations).
NewRunBootstrap(n_iterations) ==
    /\ impl = "new"
    /\ Built
    /\ lastCall' = Call("run_bootstrap", n_iterations)
    /\ NewBootstrapBody(n_iterations)
    /\ UNCHANGED rng
    /\ Frame

\* needed = iteration_num + 1 - len(self.iteration_details)
Needed(iteration_num, have) == iteration_num + 1 - have

\* New engine, run_single_iteration(iteration_num): runs run_bootstrap(needed)
\* when the iteration is not there yet, and returns nothing.
NewRunSingleIteration(iteration_num) ==
    /\ impl = "new"
    /\ Built
    /\ lastCall' = Call("run_single_iteration", iteration_num)
    /\ IF Len(iteration_details) <= iteration_num
       THEN \E loop \in {NewLoop(Needed(iteration_num, Len(iteration_details)))} :
            /\ scale_parameter' = LibScale
            /\ iteration_details' = loop.details
            /\ reserve_estimates' = ReservesOf(loop.details)
            /\ firstResult' = Remember(firstResult, loop.details)
            /\ raised' = loop.raised
            /\ returned' = None
       ELSE /\ raised' = "none"
            /\ returned' = None
            /\ UNCHANGED <<scale_parameter, iteration_details, reserve_estimates,
                           firstResult>>
    /\ UNCHANGED rng
    /\ Frame

Next ==
    \/ \E k \in Iterations : OldRunSingleIteration(k)
    \/ \E n \in 1..MaxIter : OldRunBootstrap(n)
    \/ \E k \in Iterations : NewRunSingleIteration(k)
    \/ \E n \in 1..MaxIter : NewRunBootstrap(n)

Spec == Init /\ [][Next]_vars

-----------------------------------------------------------------------------
(* The application's playback callbacks (callbacks.py), which run on the   *)
(* engine app.py constructs and on the page's components.                  *)

\* What no playback callback assigns.
EngineFixed == UNCHANGED <<impl, random_state, gen, fit_fails, n_origin, n_dev, actual,
                           fitted, residual_pool, df, rng>>

\* The callbacks that have the store's data as an Input and are run when a
\* callback writes it: control_interval and update_visualization.
StoreListeners == {"control_interval", "update_visualization"}

\* The user acts on a page at rest: Dash has run the callbacks of every
\* change before the next click, tick or choice arrives.  The reset button
\* alone is taken at any moment.
AtRest == pending = {}

\* A reset that empties iteration_details and leaves reserve_estimates.
ResetKeepsReserves ==
    /\ Built
    /\ lastCall' = Call("control_playback", n_iterations_slider)
    /\ triggered_id' = "reset-button"
    /\ iteration_details' = <<>>
    /\ store' = [is_playing |-> FALSE, current_iteration |-> 0, current_frame |-> 0,
                 n_iterations |-> n_iterations_slider, bootstrap_complete |-> FALSE]
    /\ play_button' = PlayFace
    /\ pending' = StoreListeners
    /\ returned' = None
    /\ raised' = "none"
    /\ UNCHANGED <<scale_parameter, reserve_estimates, firstResult, interval_disabled,
                   n_iterations_slider, show_cell_anim, shown>>
    /\ EngineFixed

\* A reset that leaves the store's bootstrap_complete as it finds it.
ResetKeepsComplete ==
    /\ Built
    /\ lastCall' = Call("control_playback", n_iterations_slider)
    /\ triggered_id' = "reset-button"
    /\ iteration_details' = <<>>
    /\ reserve_estimates' = <<>>
    /\ store' = [is_playing |-> FALSE, current_iteration |-> 0, current_frame |-> 0,
                 n_iterations |-> n_iterations_slider,
                 bootstrap_complete |-> store.bootstrap_complete]
    /\ play_button' = PlayFace
    /\ pending' = StoreListeners
    /\ returned' = None
    /\ raised' = "none"
    /\ UNCHANGED <<scale_parameter, firstResult, interval_disabled, n_iterations_slider,
                   show_cell_anim, shown>>
    /\ EngineFixed

\* control_playback, triggered by the reset button: the engine's two lists
\* are emptied and the store starts over.
Reset ==
    /\ Built
    /\ lastCall' = Call("control_playback", n_iterations_slider)
    /\ triggered_id' = "reset-button"
    /\ iteration_details' = <<>>
    /\ reserve_estimates' = <<>>
    /\ store' = [is_playing |-> FALSE, current_iteration |-> 0, current_frame |-> 0,
                 n_iterations |-> n_iterations_slider, bootstrap_complete |-> FALSE]
    /\ play_button' = PlayFace
    /\ pending' = StoreListeners
    /\ returned' = None
    /\ raised' = "none"
    /\ UNCHANGED <<scale_parameter, firstResult, interval_disabled, n_iterations_slider,
                   show_cell_anim, shown>>
    /\ EngineFixed

\* A callback that calls run_bootstrap(n) when the engine holds fewer than n
\* iteration details; an exception of the engine leaves the callback, and
\* Dash then writes none of its outputs.
BootstrapIfShort(run, n) ==
    IF run /\ Len(iteration_details) < n
    THEN NewBootstrapBody(n)
    ELSE /\ raised' = "none"
         /\ returned' = None
         /\ UNCHANGED <<scale_parameter, iteration_details, reserve_estimates, firstResult>>

\* control_playback, triggered by the run-all button.
RunAll ==
    /\ Built
    /\ AtRest
    /\ impl = "new"
    /\ \E n_iterations \in {n_iterations_slider} :
        /\ lastCall' = Call("control_playback", n_iterations)
        /\ triggered_id' = "run-all-button"
        /\ BootstrapIfShort(TRUE, n_iterations)
        /\ IF raised' = "none"
           THEN /\ store' = [is_playing |-> FALSE,
                             current_iteration |-> n_iterations - 1,
                             current_frame |-> 0,
                             n_iterations |-> n_iterations,
                             bootstrap_complete |-> TRUE]
                /\ play_button' = PlayFace
                /\ pending' = StoreListeners
           ELSE UNCHANGED <<store, play_button, pending>>
    /\ UNCHANGED <<interval_disabled, n_iterations_slider, show_cell_anim, shown>>
    /\ EngineFixed

\* control_playback, triggered by the play button: the store's is_playing is
\* toggled; bootstrap_complete is set where the callback ran the bootstrap.
Play ==
    /\ Built
    /\ AtRest
    /\ impl = "new"
    /\ \E n_iterations \in {n_iterations_slider}, new_is_playing \in {~store.is_playing} :
       \E starting \in {new_is_playing /\ ~store.bootstrap_complete} :
        /\ lastCall' = Call("control_playback", n_iterations)
        /\ triggered_id' = "play-button"
        /\ BootstrapIfShort(starting, n_iterations)
        /\ IF raised' = "none"
           THEN /\ store' = [store EXCEPT
                                !.bootstrap_complete =
                                    IF starting /\ Len(iteration_details) < n_iterations
                                    THEN TRUE ELSE @,
                                !.is_playing = new_is_playing,
                                !.n_iterations = n_iterations]
                /\ play_button' = IF new_is_playing THEN PauseFace ELSE PlayFace
                /\ pending' = StoreListeners
           ELSE UNCHANGED <<store, play_button, pending>>
    /\ UNCHANGED <<interval_disabled, n_iterations_slider, show_cell_anim, shown>>
    /\ EngineFixed

\* control_interval, run for a changed store: the timer ticks while the
\* store says the animation is playing.
ControlInterval ==
    /\ "control_interval" \in pending
    /\ lastCall' = Call("control_interval", 0)
    /\ interval_disabled' = ~store.is_playing
    /\ pending' = pending \ {"control_interval"}
    /\ returned' = None
    /\ raised' = "none"
    /\ UNCHANGED <<scale_parameter, iteration_details, reserve_estimates, firstResult,
                   store, play_button, n_iterations_slider, show_cell_anim,
                   triggered_id, shown>>
    /\ EngineFixed

\* Python's seq[i]: indexes -len .. len - 1 are inside the list, a negative
\* one counting from its end; any other raises IndexError.
PyInside(seq, i) == -Len(seq) <= i /\ i < Len(seq)

PyAt(seq, i) == IF i >= 0 THEN seq[i + 1] ELSE seq[Len(seq) + i + 1]

\* Python's seq[:stop] for stop >= 0.
PyUpTo(seq, stop) == SubSeq(seq, 1, IF stop < Len(seq) THEN stop ELSE Len(seq))

\* A step of the animation that moves two cells on.
AdvanceSkipsFrame(trigger, store_data, n_cells, animate_cells) ==
    IF trigger = "step-button" \/ store_data.is_playing
    THEN IF animate_cells
         THEN IF store_data.current_frame + 2 >= n_cells
              THEN [current_iteration |-> store_data.current_iteration + 1,
                    current_frame |-> 0]
              ELSE [current_iteration |-> store_data.current_iteration,
                    current_frame |-> store_data.current_frame + 2]
         ELSE [current_iteration |-> store_data.current_iteration + 1,
               current_frame |-> n_cells - 1]
    ELSE [current_iteration |-> store_data.current_iteration,
          current_frame |-> store_data.current_frame]

\* update_visualization, the step of the animation: a step click or a tick
\* of a playing animation moves one cell on with the cell animation, one
\* iteration on without it.
Advance(trigger, store_data, n_cells, animate_cells) ==
    IF trigger = "step-button" \/ store_data.is_playing
    THEN IF animate_cells
         THEN IF store_data.current_frame + 1 >= n_cells
              THEN [current_iteration |-> store_data.current_iteration + 1,
                    current_frame |-> 0]
              ELSE [current_iteration |-> store_data.current_iteration,
                    current_frame |-> store_data.current_frame + 1]
         ELSE [current_iteration |-> store_data.current_iteration + 1,
               current_frame |-> n_cells - 1]
    ELSE [current_iteration |-> store_data.current_iteration,
          current_frame |-> store_data.current_frame]

\* raise PreventUpdate: no output is written.
Prevented(store_data) ==
    [outcome |-> "PreventUpdate", store |-> store_data, shown |-> ReadyToStart]

\* The figures and texts update_visualization returns for iteration
\* current_iteration (after the clamp to n_iterations - 1) and the frame.
Display(moved, current_iteration, store_data, n_cells, details, reserves, animate_cells) ==
    LET at == IF current_iteration < Len(details) - 1 THEN current_iteration
              ELSE Len(details) - 1
    IN  IF ~PyInside(details, at)
        THEN [outcome |-> "IndexError", store |-> store_data, shown |-> ReadyToStart]
        ELSE LET iteration_detail == PyAt(details, at)
                 sampling == animate_cells /\
                                moved.current_frame < Len(iteration_detail.sampling_details)
                 reserves_so_far == PyUpTo(reserves, current_iteration + 1)
             IN  IF sampling /\ ~PyInside(iteration_detail.sampling_details,
                                          moved.current_frame)
                 THEN [outcome |-> "IndexError", store |-> store_data,
                       shown |-> ReadyToStart]
                 ELSE [outcome |-> "returned",
                       store |-> store_data,
                       shown |->
                         [progress_text |-> IF animate_cells /\ moved.current_frame < n_cells
                                            THEN "Sampling cell" ELSE "complete",
                          iteration |-> current_iteration + 1,
                          of |-> store_data.n_iterations,
                          cell |-> moved.current_frame + 1,
                          n_cells |-> n_cells,
                          reserves_so_far |-> reserves_so_far,
                          stats_text |-> IF Len(reserves_so_far) > 0
                                         THEN "Mean Reserve" ELSE "No statistics yet"]]

\* update_visualization(n_intervals, step_clicks, store_data, show_cell_anim)
\* with ctx.triggered_id = trigger, on the engine's lists: how it ends, the
\* store data it returns and what it shows.
update_visualization(trigger, store_data, details, reserves, animate_cells) ==
    IF Len(details) = 0
    THEN [outcome |-> "returned", store |-> store_data, shown |-> ReadyToStart]
    ELSE IF ~store_data.bootstrap_complete /\ trigger # "iteration-store"
    THEN Prevented(store_data)
    ELSE IF store_data.current_iteration >= Len(details)
    THEN Prevented(store_data)
    ELSE IF ~PyInside(details, store_data.current_iteration)
    THEN [outcome |-> "IndexError", store |-> store_data, shown |-> ReadyToStart]
    ELSE LET n_cells == Len(PyAt(details, store_data.current_iteration).sampling_details)
             moved == IF trigger # "iteration-store"
                      THEN Advance(trigger, store_data, n_cells, animate_cells)
                      ELSE [current_iteration |-> store_data.current_iteration,
                            current_frame |-> store_data.current_frame]
             done == moved.current_iteration >= store_data.n_iterations
             written == [store_data EXCEPT
                            !.current_iteration = moved.current_iteration,
                            !.current_frame = moved.current_frame,
                            !.is_playing = IF done THEN FALSE ELSE @]
         IN  Display(moved,
                     IF done THEN store_data.n_iterations - 1
                     ELSE moved.current_iteration,
                     written, n_cells, details, reserves, animate_cells)

\* The callback runs with ctx.triggered_id = trigger.  What it returns is
\* written to the page, and the store it writes is an Input of
\* control_interval; when it raises, the page keeps what it had.
UpdateVisualization(trigger) ==
    /\ Built
    /\ lastCall' = Call("update_visualization", 0)
    /\ triggered_id' = trigger
    /\ \E result \in {update_visualization(trigger, store, iteration_details,
                                          reserve_estimates, show_cell_anim)} :
        /\ raised' = IF result.outcome = "returned" THEN "none" ELSE result.outcome
        /\ IF result.outcome = "returned"
           THEN /\ store' = result.store
                /\ shown' = result.shown
                /\ pending' = (pending \ {IF trigger = "iteration-store"
                                           THEN "update_visualization" ELSE "none"})
                                   \cup {"control_interval"}
           ELSE /\ UNCHANGED <<store, shown>>
                /\ pending' = pending \ {IF trigger = "iteration-store"
                                          THEN "update_visualization" ELSE "none"}
    /\ returned' = None
    /\ UNCHANGED <<scale_parameter, iteration_details, reserve_estimates, firstResult,
                   play_button, interval_disabled, n_iterations_slider, show_cell_anim>>
    /\ EngineFixed

\* The timer's tick: dcc.Interval counts on while it is not disabled.
Tick == AtRest /\ ~interval_disabled /\ UpdateVisualization("interval-component")

\* A click on the step button.
Step == AtRest /\ UpdateVisualization("step-button")

\* Dash runs update_visualization for the store a callback has written.
StoreChanged ==
    /\ "update_visualization" \in pending
    /\ UpdateVisualization("iteration-store")

\* The user moves the iterations slider; no callback has it as an Input.
MoveSlider(value) ==
    /\ Built
    /\ AtRest
    /\ value # n_iterations_slider
    /\ n_iterations_slider' = value
    /\ UNCHANGED <<scale_parameter, iteration_details, reserve_estimates, firstResult,
                   lastCall, returned, raised, store, play_button, interval_disabled,
                   show_cell_anim, pending, triggered_id, shown>>
    /\ EngineFixed

\* The user ticks or clears the cell animation box; no callback has it as an
\* Input.
ToggleCellAnimation ==
    /\ Built
    /\ AtRest
    /\ show_cell_anim' = ~show_cell_anim
    /\ UNCHANGED <<scale_parameter, iteration_details, reserve_estimates, firstResult,
                   lastCall, returned, raised, store, play_button, interval_disabled,
                   n_iterations_slider, pending, triggered_id, shown>>
    /\ EngineFixed

-----------------------------------------------------------------------------
(* The life of an engine in the application: runs of any length, zero      *)
(* included, synthetic triangles the fit rejects, and changes of dataset.  *)

\* The datasets of the dropdown: the 2 x 2 triangles over these cells
\* (<<fitted, actual>>, as CellChoices).
DatasetCellChoices == {<<1, 2>>, <<4, 0>>}

Datasets == [ObservedCells(2, 2) -> DatasetCellChoices]

\* A triangle of one origin period and one development period: its one cell
\* (<<fitted, actual>>, as CellChoices).
SmallCellChoices == {<<4, 4>>, <<1, 2>>}

SmallTriangles == [ObservedCells(1, 1) -> SmallCellChoices]

\* cl.Chainladder().fit(self.triangle) on such a triangle is the library's
\* affair: it fits, or it raises an error of its own.
SmallFitOutcomes == {"none", "LibraryError"}

\* AnimatedBootstrapODP(triangle) whose base fit raised: the exception leaves
\* __init__ and the caller gets no engine.
ConstructionFailed(im, rs, g, n, obs, ff, error) ==
    /\ impl = im
    /\ gen = g
    /\ fit_fails = ff
    /\ random_state = rs
    /\ n_origin = n
    /\ n_dev = n
    /\ actual = ActualOf(obs, n, n)
    /\ fitted = [c \in Cells(n, n) |-> 0]
    /\ residual_pool = <<>>
    /\ df = "unset"
    /\ scale_parameter = None
    /\ iteration_details = <<>>
    /\ reserve_estimates = <<>>
    /\ rng = [seed |-> rs, pos |-> 0]
    /\ lastCall = Call("__init__", 0)
    /\ returned = None
    /\ raised = error
    /\ firstResult = [i \in Iterations |-> None]
    /\ PageLoaded

\* The engine on a triangle too small for a development factor.
InitSmall ==
    \E im \in {"old", "new"}, obs \in SmallTriangles, outcome \in SmallFitOutcomes :
        IF outcome = "none" THEN Constructed(im, DefaultSeed, 0, 1, obs, {})
        ELSE ConstructionFailed(im, DefaultSeed, 0, 1, obs, {}, outcome)

InitLifecycle ==
    \/ \E im \in {"old", "new"}, obs \in Datasets, ff \in SUBSET Iterations :
            Constructed(im, DefaultSeed, 0, 2, obs, ff)
    \/ InitSmall

\* update_dataset: the engine is initialised again on the chosen dataset.
UpdateDataset == \E obs \in Datasets, ff \in SUBSET Iterations : Reinitialise(2, obs, ff)

NextLifecycle ==
    \/ \E k \in Iterations : OldRunSingleIteration(k)
    \/ \E n \in 0..MaxIter : OldRunBootstrap(n)
    \/ \E k \in Iterations : NewRunSingleIteration(k)
    \/ \E n \in 0..MaxIter : NewRunBootstrap(n)
    \/ UpdateDataset
    \/ Reset

SpecLifecycle == InitLifecycle /\ [][NextLifecycle]_vars

-----------------------------------------------------------------------------
(* A browser session on the application: the page, its buttons, its timer  *)
(* and the engine app.py constructs (bootstrap_engine.py).                 *)

\* The datasets of the dropdown in a session: two triangles of different
\* sizes; the fit rejects the second synthetic triangle of one of them.
PageDatasets ==
    {[n |-> 2, obs |-> [c \in ObservedCells(2, 2) |-> <<1, 2>>], fit_fails |-> {}],
     [n |-> 3, obs |-> [c \in ObservedCells(3, 3) |-> <<4, 0>>], fit_fails |-> {1}]}

\* The page is loaded: every component is as the layout describes it, and
\* update_dataset, which has no prevent_initial_call, initialises the engine
\* again on the dataset of the dropdown.
LoadPage ==
    /\ \E dataset \in PageDatasets :
            ReinitialiseEngine(dataset.n, dataset.obs, dataset.fit_fails)
    /\ store' = LayoutStore
    /\ play_button' = PlayFace
    /\ interval_disabled' = TRUE
    /\ n_iterations_slider' = SliderInitial
    /\ show_cell_anim' = TRUE
    /\ pending' = {}
    /\ triggered_id' = "none"
    /\ shown' = ReadyToStart

\* The dataset of the dropdown is chosen on a page at rest.
ChooseDataset ==
    /\ AtRest
    /\ \E dataset \in PageDatasets : Reinitialise(dataset.n, dataset.obs, dataset.fit_fails)

InitUI ==
    \E dataset \in PageDatasets :
        Constructed("new", DefaultSeed, 0, dataset.n, dataset.obs, dataset.fit_fails)

NextUI ==
    \/ Play
    \/ Reset
    \/ RunAll
    \/ ControlInterval
    \/ Tick
    \/ Step
    \/ StoreChanged
    \/ \E value \in SliderValues : MoveSlider(value)
    \/ ToggleCellAnimation
    \/ ChooseDataset
    \/ LoadPage

SpecUI == InitUI /\ [][NextUI]_vars

\* What goes on without the user: the timer ticks while it is enabled, and
\* Dash runs the callbacks of a changed store.
FairUI == WF_vars(Tick) /\ WF_vars(ControlInterval) /\ WF_vars(StoreChanged)

SpecUIFair == SpecUI /\ FairUI

-----------------------------------------------------------------------------
(* The animation speed callback (callbacks.py, update_interval_speed).      *)
(* Python floats are IEEE 754 doubles; numbers of 53 bits do not fit the    *)
(* integers of TLC, so mantissas are bit strings, most significant bit      *)
(* first.                                                                   *)

\* Significant bits of a double.
MantissaBits == 53

\* The element of a set of one element: Only({F(v) : v \in {e}}) is F(e)
\* with e computed once.
Only(S) == CHOOSE v \in S : TRUE

Zeros(n) == [i \in 1..n |-> 0]

Front(b) == SubSeq(b, 1, Len(b) - 1)

\* b without its leading zeros
Strip(b) ==
    IF \A i \in 1..Len(b) : b[i] = 0 THEN <<>>
    ELSE SubSeq(b, CHOOSE i \in 1..Len(b) : b[i] = 1 /\ \A j \in 1..(i - 1) : b[j] = 0,
                Len(b))

RECURSIVE FromNat(_)
FromNat(n) == IF n = 0 THEN <<>> ELSE Append(FromNat(n \div 2), n % 2)

\* The value of the bits i.. of b.
RECURSIVE ToNatFrom(_, _)
ToNatFrom(b, i) ==
    IF i > Len(b) THEN 0 ELSE b[i] * 2^(Len(b) - i) + ToNatFrom(b, i + 1)

ToNat(b) == Only({ToNatFrom(bits, 1) : bits \in {b}})

PadTo(b, n) == Zeros(n - Len(b)) \o b

\* a >= b
BGeq(a, b) ==
    LET x == Strip(a)
        y == Strip(b)
    IN  IF Len(x) # Len(y) THEN Len(x) > Len(y)
        ELSE \/ x = y
             \/ \E i \in 1..Len(x) : x[i] > y[i] /\ \A j \in 1..(i - 1) : x[j] = y[j]

\* The borrow that bit i of x - y receives from the bits below it (x and y of
\* one length).
Borrow(x, y, i) ==
    IF \E j \in (i + 1)..Len(x) : x[j] < y[j] /\ \A l \in (i + 1)..(j - 1) : x[l] = y[l]
    THEN 1 ELSE 0

\* a - b, for a >= b
BSub(a, b) ==
    LET n == IF Len(a) > Len(b) THEN Len(a) ELSE Len(b)
        x == PadTo(a, n)
        y == PadTo(b, n)
    IN  Only({Strip(z) : z \in {[i \in 1..n |-> (x[i] - y[i] - Borrow(x, y, i) + 2) % 2]}})

\* a + 1
BInc(b) ==
    IF \A i \in 1..Len(b) : b[i] = 1 THEN <<1>> \o Zeros(Len(b))
    ELSE LET z == CHOOSE i \in 1..Len(b) : b[i] = 0 /\ \A j \in (i + 1)..Len(b) : b[j] = 1
         IN  [i \in 1..Len(b) |-> IF i < z THEN b[i] ELSE IF i = z THEN 1 ELSE 0]

\* One step of long division: the next bit of the dividend comes down to the
\* remainder, and the divisor is taken off when it fits.
DivBit(st, bit, d) ==
    Only({IF BGeq(r1, d) THEN [q |-> Append(st.q, 1), r |-> BSub(r1, d)]
          ELSE [q |-> Append(st.q, 0), r |-> r1] :
          r1 \in {Strip(Append(st.r, bit))}})

\* Long division of the bits i..n of a, after the quotient and remainder st
\* of the bits before them.
RECURSIVE DivStretch(_, _, _, _, _)
DivStretch(st, a, i, n, d) ==
    IF i > n THEN st
    ELSE Only({DivStretch(nx, a, i + 1, n, d) : nx \in {DivBit(st, a[i], d)}})

\* The same for the bits i.. of a, a stretch of eight bits at a time.
RECURSIVE DivFrom(_, _, _, _)
DivFrom(st, a, i, d) ==
    IF i > Len(a) THEN st
    ELSE Only({DivFrom(nx, a, i + 8, d) :
               nx \in {DivStretch(st, a, i, IF i + 7 < Len(a) THEN i + 7 ELSE Len(a), d)}})

\* Quotient and remainder of a by d.
DivMod(a, d) ==
    Only({DivFrom(st, bits, 1, d) : st \in {[q |-> <<>>, r |-> <<>>]}, bits \in {a}})

\* The quotient q (remainder r, divisor d) rounded to the nearest integer,
\* ties to the even one.
RoundUp(q, r, d) ==
    Only({IF BGeq(twice, d) /\ (twice # d \/ (q # <<>> /\ q[Len(q)] = 1))
          THEN BInc(q) ELSE q :
          twice \in {Strip(Append(r, 0))}})

\* a * 2^k / d rounded to the nearest integer, ties to the even one (a and d
\* without leading zeros).
RoundedQuotient(a, d, k) ==
    Only({RoundUp(Strip(dm.q), dm.r, d) : dm \in {DivMod(a \o Zeros(k), d)}})

\* The mantissa m of k fraction bits as a double: 2^53 has 54 bits and is
\* 2^52 with one fraction bit less.
Normal(m, k) ==
    IF Len(m) > MantissaBits THEN [m |-> Front(m), k |-> k - 1] ELSE [m |-> m, k |-> k]

\* a / d as a double, m * 2^(-k) with m of MantissaBits bits: the correctly
\* rounded quotient of two positive integers without leading zeros.
Round53Stripped(a, d) ==
    Only({Only({Normal(m, k) : m \in {RoundedQuotient(a, d, k)}}) :
          k \in {Only({IF Len(Strip(DivMod(a \o Zeros(k0), d).q)) > MantissaBits
                       THEN k0 - 1 ELSE k0 :
                       k0 \in {MantissaBits + Len(d) - Len(a)}})}})

Round53(a, d) ==
    Only({Round53Stripped(x, y) : x \in {Strip(a)}, y \in {Strip(d)}})

\* The double of an integer below 2^53.
FloatOfInt(n) == [m |-> FromNat(n), k |-> 0]

\* x / y in double arithmetic.
FDiv(x, y) ==
    Only({[m |-> r.m, k |-> r.k + x.k - y.k] : r \in {Round53(x.m, y.m)}})

\* x >= n, for a double x and an integer n
FGeqInt(x, n) ==
    IF x.k >= 0 THEN BGeq(x.m, FromNat(n) \o Zeros(x.k))
    ELSE BGeq(x.m \o Zeros(-x.k), FromNat(n))

\* int(x) of a positive double: truncation.
IntOfRounds(x) ==
    IF x.k <= 0 THEN ToNat(x.m \o Zeros(-x.k))
    ELSE IF Len(x.m) < x.k THEN 0
    ELSE ToNat(SubSeq(x.m, 1, Len(x.m) - x.k)) + x.m[Len(x.m) - x.k + 1]

IntOf(x) ==
    IF x.k <= 0 THEN ToNat(x.m \o Zeros(-x.k))
    ELSE IF Len(x.m) <= x.k THEN 0
    ELSE ToNat(SubSeq(x.m, 1, Len(x.m) - x.k))

\* The slider: 0.1 to 10 in steps of 0.1, as tenths.
MaxSpeedTenths == 100

SliderTenths == 1..MaxSpeedTenths

\* The slider's value as the callback receives it: the double of tenths / 10.
SpeedValue(tenths) ==
    Only({FDiv(x, y) : x \in {FloatOfInt(tenths)}, y \in {FloatOfInt(10)}})

base_interval == 300

min_interval(speed_value) ==
    IF FGeqInt(speed_value, 7) THEN 100
    ELSE IF FGeqInt(speed_value, 5) THEN 80
    ELSE IF FGeqInt(speed_value, 3) THEN 60
    ELSE IF FGeqInt(speed_value, 2) THEN 50
    ELSE 40

\* update_interval_speed(speed_value)
update_interval_speed(speed_value) ==
    Only({IF least >= interval THEN least ELSE interval :
          interval \in {IntOf(quotient) :
                        quotient \in {FDiv(FloatOfInt(base_interval), speed_value)}},
          least \in {min_interval(speed_value)}})

\* What the callback returns at each position of the slider.
IntervalOfSlider ==
    [tenths \in SliderTenths |->
        Only({update_interval_speed(speed_value) : speed_value \in {SpeedValue(tenths)}})]

\* The callback runs for a slider position and Dash stores what it returns
\* as the interval of the timer; the engine is not touched.
UpdateIntervalSpeed(tenths) ==
    /\ lastCall' = Call("update_interval_speed", tenths)
    /\ returned' = IntervalOfSlider[tenths]
    /\ raised' = "none"
    /\ UNCHANGED <<scale_parameter, iteration_details, reserve_estimates, rng,
                   firstResult>>
    /\ Frame

\* The application's engine, as app.py constructs it, on a dataset.
InitSpeed ==
    \E obs \in Datasets : Constructed("new", DefaultSeed, 0, 2, obs, {})

NextSpeed == \E tenths \in SliderTenths : UpdateIntervalSpeed(tenths)

SpecSpeed == InitSpeed /\ [][NextSpeed]_vars

-----------------------------------------------------------------------------
(* Properties.                                                             *)

PoolIndexes == 1..Len(residual_pool)

AdjustedResiduals == [k \in PoolIndexes |-> residual_pool[k].adjusted_residual]

EntryCell(e) == <<e.origin, e.dev>>

\* The sample records of all iterations held by the engine.
AllRecords ==
    UNION {{iteration_details[d].sampling_details[k] :
               k \in 1..Len(iteration_details[d].sampling_details)} :
           d \in 1..Len(iteration_details)}

\* C1: for a non-empty residual pool, the adjusted residuals of the pool sum
\* to zero (their mean is 0).
C1_ResidualsCentered ==
    Len(residual_pool) > 0 => VSign(VSum(AdjustedResiduals), Q) = 0

\* A pool of at least three entries, not all of them equal after centring.
C1_Witness ==
    /\ Len(residual_pool) >= 3
    /\ \E k \in PoolIndexes : VSign(residual_pool[k].adjusted_residual, Q) > 0

\* C3: the pool holds only observed cells with fitted > 0, each at most once,
\* and every such cell except those whose standardized residual is exactly
\* zero (actual = fitted); no unobserved cell, no cell with fitted <= 0.
C3_PoolIsTheValidCells ==
    /\ \A k \in PoolIndexes :
        LET c == EntryCell(residual_pool[k])
        IN  /\ c \in Cells(n_origin, n_dev)
            /\ c[1] + c[2] < n_origin
            /\ fitted[c] > 0
            /\ actual[c] # RInt(fitted[c])
    /\ \A k, m \in PoolIndexes :
        k # m => EntryCell(residual_pool[k]) # EntryCell(residual_pool[m])
    /\ \A c \in Cells(n_origin, n_dev) :
        (c[1] + c[2] < n_origin /\ fitted[c] > 0 /\ actual[c] # RInt(fitted[c]))
            => \E k \in PoolIndexes : EntryCell(residual_pool[k]) = c

\* A pool with entries beside an observed cell with fitted <= 0 and an
\* observed cell whose residual is exactly zero, both left out.
C3_Witness ==
    /\ Len(residual_pool) >= 1
    /\ \E c \in ObservedCells(n_origin, n_dev) : fitted[c] <= 0
    /\ \E c \in ObservedCells(n_origin, n_dev) :
        fitted[c] > 0 /\ actual[c] = RInt(fitted[c])

\* C4: df = max(n - p, 1) with n the pool size and p = n_dev - 1; df is never
\* zero or negative, and df = 1 whenever n <= p.  (Only the old engine
\* computes a df for its pool.)
C4_DegreesOfFreedomFloor ==
    impl = "old" =>
        LET n == Len(residual_pool)
            p == n_dev - 1
        IN  /\ df >= 1
            /\ df >= n - p
            /\ df = n - p \/ df = 1
            /\ n <= p => df = 1

\* A 2 x 2 triangle with one residual in the pool: n = p = 1, n - p = 0, and
\* the floor gives df = 1.
C4_Witness ==
    /\ impl = "old"
    /\ n_origin = 2
    /\ Len(residual_pool) = 1
    /\ df = 1

\* A pool larger than p + 1, where df = n - p > 1.
C4_WitnessLarge == impl = "old" /\ df > 1

\* C9: running iteration i twice on the same engine with the same seed yields
\* identical sample records, synthetic triangles and reserve estimate: every
\* result the engine holds or returns for iteration i is the first one it
\* produced for i.
C9_Reproducible ==
    /\ \A k \in 1..Len(iteration_details) :
        iteration_details[k] = firstResult[iteration_details[k].iteration]
    /\ (lastCall.op = "run_single_iteration" /\ raised = "none" /\ returned # None)
        => returned = firstResult[lastCall.arg]

\* The old engine has run the same iteration twice, sampling from a pool of
\* two or more residuals.
C9_Witness ==
    /\ impl = "old"
    /\ Len(iteration_details) = 2
    /\ iteration_details[1].iteration = iteration_details[2].iteration
    /\ Len(residual_pool) >= 2
    /\ Len(iteration_details[1].sampling_details) >= 2

\* A value that is a number (not NaN) and not below zero.
NonNegative(v) == v = VNaN \/ VSign(v, Q) >= 0

\* C2: every sample record of every iteration has bootstrap_value >= 0, and
\* so has every cell of the synthetic incremental triangle (a cell without a
\* value, NaN, is not counted against it).
C2_NonNegative ==
    /\ \A rec \in AllRecords : NonNegative(rec.bootstrap_value)
    /\ \A d \in 1..Len(iteration_details) :
        \A c \in Cells(n_origin, n_dev) :
            NonNegative(iteration_details[d].bootstrap_incremental[c])

\* The part of C2 the old engine is responsible for.
C2_NonNegativeOld == impl = "old" => C2_NonNegative

\* The standardized residual of an observed cell with fitted > 0, as the
\* specification defines it: (actual - fitted) / sqrt(fitted).
Standardized(c) == RDiv(RSub(actual[c], RInt(fitted[c])), RInt(ISqrt(fitted[c])))

\* The degrees of freedom and the radicand n / df of the specification.
SpecDf == IF Len(residual_pool) - (n_dev - 1) > 1
          THEN Len(residual_pool) - (n_dev - 1) ELSE 1

SpecQ == RNorm(Len(residual_pool), SpecDf)

\* Standardized residual times sqrt(n / df), as a value over sqrt(SpecQ).
SpecScaled(k) == Val(RInt(0), Standardized(EntryCell(residual_pool[k])))

\* C5: every adjusted residual of the pool is the entry's standardized
\* residual multiplied by sqrt(n / df), minus the mean of all those scaled
\* residuals (scaling first, centring second).
C5_ScaledThenCentered ==
    \A k \in PoolIndexes :
        VEq(residual_pool[k].adjusted_residual,
            VSub(SpecScaled(k),
                 VScale(VSum([m \in PoolIndexes |-> SpecScaled(m)]),
                        RNorm(1, Len(residual_pool)))),
            SpecQ)

C5_ScaledThenCenteredOld == impl = "old" => C5_ScaledThenCentered

\* max(0, fitted + r * sqrt(fitted))
SpecBootstrapValue(f, r) ==
    LET v == VAdd(VInt(f), VScale(r, RInt(ISqrt(f))))
    IN  IF VSign(v, Q) > 0 THEN v ELSE VInt(0)

\* C6: in every iteration the value of each resampled observed cell with
\* fitted > 0 is max(0, fitted + r * sqrt(fitted)) for an adjusted residual r
\* that is in the pool.
C6_ValueFromPool ==
    \A d \in 1..Len(iteration_details) :
        \A c \in ObservedCells(n_origin, n_dev) :
            fitted[c] > 0 =>
                \E k \in PoolIndexes :
                    VEq(iteration_details[d].bootstrap_incremental[c],
                        SpecBootstrapValue(fitted[c], residual_pool[k].adjusted_residual),
                        Q)

C6_ValueFromPoolOld == impl = "old" => C6_ValueFromPool

\* C7: an observed cell whose fitted value is 0 is not in the pool, is 0 in
\* the synthetic incremental triangle of every iteration, and no sample record
\* reports it as sampled from the pool; no operation ends in a division by
\* zero.
C7_ZeroFittedCell ==
    \A c \in ObservedCells(n_origin, n_dev) :
        fitted[c] = 0 =>
            /\ \A k \in PoolIndexes : EntryCell(residual_pool[k]) # c
            /\ \A d \in 1..Len(iteration_details) :
                VEq(iteration_details[d].bootstrap_incremental[c], VInt(0), Q)
            /\ \A rec \in AllRecords :
                (rec.origin = c[1] /\ rec.dev = c[2]) =>
                    rec.sampled_from_origin = NoneIdx /\ rec.sampled_from_dev = NoneIdx
            /\ raised # "ZeroDivisionError"

C7_ZeroFittedCellOld == impl = "old" => C7_ZeroFittedCell

\* C8: the synthetic cumulative triangle of every iteration has the shape of
\* the source triangle, each row is the running sum of the synthetic
\* incremental row, and the values do not decrease along the development axis
\* (over the cells that hold a value).
C8_CumulativeTriangle ==
    \A d \in 1..Len(iteration_details) :
        LET incr == iteration_details[d].bootstrap_incremental
            cum == iteration_details[d].bootstrap_cumulative
        IN  /\ DOMAIN cum = DOMAIN actual
            /\ DOMAIN incr = DOMAIN actual
            /\ \A c \in DOMAIN cum :
                cum[c] # VNaN =>
                    /\ VEq(cum[c], VSum([j \in 1..(c[2] + 1) |-> incr[<<c[1], j - 1>>]]), Q)
                    /\ c[2] > 0 => VLeq(cum[<<c[1], c[2] - 1>>], cum[c], Q)

C8_CumulativeTriangleOld == impl = "old" => C8_CumulativeTriangle

\* The result of iteration i as a function of the engine's fixed inputs, the
\* base seed and i alone: the iteration on a generator seeded for i.
PureResult(i) ==
    IF impl = "old"
    THEN OldIteration(gen, [seed |-> random_state + i, pos |-> 0], i, n_origin, n_dev,
                      fitted, residual_pool, Q)
    ELSE NewIteration(gen, random_state, i, n_origin, n_dev, fitted, residual_pool)

\* The result the engine holds for iteration i: the last entry with that
\* index, None when there is none.
HeldResult(i) ==
    IF \E k \in 1..Len(iteration_details) : iteration_details[k].iteration = i
    THEN iteration_details[CHOOSE k \in 1..Len(iteration_details) :
                              /\ iteration_details[k].iteration = i
                              /\ \A m \in (k + 1)..Len(iteration_details) :
                                    iteration_details[m].iteration # i]
    ELSE None

\* C10: the result of iteration i depends only on the base seed and i: every
\* result held is that function of i, whatever ran before, and running the
\* iteration alone (run_single_iteration(i)) leaves the same result for i as
\* run_bootstrap(n), n > i, does.
C10_DependsOnlyOnSeedAndIndex ==
    /\ \A k \in 1..Len(iteration_details) :
        iteration_details[k] = PureResult(iteration_details[k].iteration)
    /\ (lastCall.op = "run_single_iteration" /\ raised = "none")
        => HeldResult(lastCall.arg) = PureResult(lastCall.arg)

C10_DependsOnlyOnSeedAndIndexOld == impl = "old" => C10_DependsOnlyOnSeedAndIndex

\* C11: the provenance (sampled_from_origin, sampled_from_dev) of every sample
\* record is the position of an entry of the residual pool, and the record's
\* sampled_residual is that entry's adjusted residual.
C11_ProvenanceInPool ==
    \A rec \in AllRecords :
        \E k \in PoolIndexes :
            /\ rec.sampled_from_origin = Some(residual_pool[k].origin)
            /\ rec.sampled_from_dev = Some(residual_pool[k].dev)
            /\ VEq(rec.sampled_residual, residual_pool[k].adjusted_residual, Q)

C11_ProvenanceInPoolOld == impl = "old" => C11_ProvenanceInPool

\* The last operation was an attempt to sample: run_bootstrap, or the old
\* engine's run_single_iteration (the new engine's does nothing when it holds
\* enough iterations).
SamplingAttempted ==
    \/ lastCall.op = "run_bootstrap" /\ lastCall.arg > 0
    \/ lastCall.op = "run_single_iteration" /\ impl = "old"

\* C12: with an empty residual pool, building the pool does not divide by
\* zero, and every attempt to sample ends with InsufficientDataError, not with
\* a result and not with another error.
C12_EmptyPoolRefusesSampling ==
    Len(residual_pool) = 0 =>
        /\ lastCall.op = "__init__" => raised = "none"
        /\ SamplingAttempted =>
            /\ raised = "InsufficientDataError"
            /\ iteration_details = <<>>

\* The first half of C12: construction on an empty pool ends without error.
C12_EmptyPoolBuilds ==
    (Len(residual_pool) = 0 /\ lastCall.op = "__init__") => raised = "none"

\* The marker of "no data" in a summary: NaN.
NoData(x) == x = RNaN

\* C13: run_bootstrap(0) does not raise and returns an empty summary: no
\* reserve estimates, and the no-data marker for mean, std and every
\* percentile.
C13_ZeroIterationsEmptySummary ==
    lastCall = Call("run_bootstrap", 0) =>
        /\ raised = "none"
        /\ returned # None
        /\ returned.n_iterations = 0
        /\ returned.reserve_estimates = <<>>
        /\ NoData(returned.mean)
        /\ NoData(returned.std.sqrt_of)
        /\ \A q \in PercentileKeys : NoData(returned.percentiles[q])

\* What the old engine does when numpy's percentile of an empty array is NaN.
C13_ZeroIterationsOldNaN ==
    (impl = "old" /\ lastCall = Call("run_bootstrap", 0) /\ raised = "none")
        => C13_ZeroIterationsEmptySummary

\* x <= y on rationals.
RLeq(x, y) == ~RLess(y, x)

\* The last operation was a run_bootstrap that returned its summary.
SummaryReturned == lastCall.op = "run_bootstrap" /\ raised = "none"

\* C14: in every summary run_bootstrap returns for at least one iteration,
\* percentile 5 <= 25 <= 50 <= 75 <= 95, and each percentile lies between the
\* smallest and the largest reserve estimate.
C14_PercentilesOrdered ==
    (SummaryReturned /\ lastCall.arg >= 1) =>
        LET pc == returned.percentiles
            res == returned.reserve_estimates
        IN  /\ RLeq(pc[5], pc[25])
            /\ RLeq(pc[25], pc[50])
            /\ RLeq(pc[50], pc[75])
            /\ RLeq(pc[75], pc[95])
            /\ \A q \in PercentileKeys :
                /\ \E k \in 1..Len(res) : RLeq(res[k], pc[q])
                /\ \E k \in 1..Len(res) : RLeq(pc[q], res[k])

\* A summary of two different reserve estimates, in descending order of
\* iteration: its percentiles are interpolated and strictly increasing.
C14_Witness ==
    /\ SummaryReturned
    /\ Len(returned.reserve_estimates) = 2
    /\ RLess(returned.reserve_estimates[2], returned.reserve_estimates[1])
    /\ RLess(returned.percentiles[5], returned.percentiles[95])

\* The sum over the origins of (projected ultimate - latest observed
\* cumulative value) for the synthetic triangle of an iteration result.
UltimateMinusLatest(d) ==
    RSum([k \in 1..n_origin |->
            RSub(LibUltimate(gen, random_state, d.iteration, n_origin, k - 1),
                 Number(Latest(d.bootstrap_cumulative, n_origin, k - 1)))])

\* The sum of the Gamma payments of the future cells, drawn after the
\* sampling of an iteration that was seeded with random_state + iteration.
GammaFuturePayments(d) ==
    LET fp == FuturePayments(d.bootstrap_cumulative, n_origin, n_dev, Q)
        first == Len(d.sampling_details)
    IN  RSum([m \in 1..Len(fp) |->
                GammaDraw(gen, [seed |-> random_state + d.iteration,
                                pos |-> first + m - 1])])

\* C15 as stated: the reserve estimate of every iteration is the sum over the
\* origins of (projected ultimate of the re-fitted model - latest observed
\* cumulative value of the synthetic triangle).
C15_UltimateMinusLatest ==
    \A k \in 1..Len(iteration_details) :
        iteration_details[k].reserve_estimate = UltimateMinusLatest(iteration_details[k])

\* C15, amended: every iteration of an engine uses that engine's one rule.
\* The new engine's reserve is the sum over the origins of (projected ultimate
\* - latest observed cumulative value); the old engine's is the sum of the
\* Gamma payments drawn for the future cells of the re-fitted model.
C15_OneRulePerEngine ==
    \A k \in 1..Len(iteration_details) :
        /\ impl = "new" =>
            iteration_details[k].reserve_estimate = UltimateMinusLatest(iteration_details[k])
        /\ impl = "old" =>
            iteration_details[k].reserve_estimate = GammaFuturePayments(iteration_details[k])
        /\ reserve_estimates[k] = iteration_details[k].reserve_estimate

\* The new engine holds two iterations whose reserves differ, on a synthetic
\* triangle with a latest diagonal that is not zero.
C15_Witness ==
    /\ impl = "new"
    /\ Len(iteration_details) = 2
    /\ iteration_details[1].reserve_estimate # iteration_details[2].reserve_estimate
    /\ \E i \in 0..(n_origin - 1) :
        Number(Latest(iteration_details[2].bootstrap_cumulative, n_origin, i)) # RInt(0)

\* C16: when the model fit fails on the synthetic triangle of an iteration,
\* run_bootstrap does not abort: it does not end with the fit's error, and it
\* holds a result for every iteration of the run whose fit succeeds (the
\* failed iteration's reserve is left out).
C16_FitFailureRecovered ==
    lastCall.op = "run_bootstrap" =>
        /\ raised # "FitError"
        /\ \A i \in 0..(lastCall.arg - 1) :
            IF FitFails(i)
            THEN \A k \in 1..Len(iteration_details) : iteration_details[k].iteration # i
            ELSE \E k \in 1..Len(iteration_details) : iteration_details[k].iteration = i

\* What the engines do instead: the run ends with the fit's error at the
\* first iteration the fit rejects, holding the results of those before it.
C16_FitFailureAborts ==
    (lastCall.op = "run_bootstrap" /\ \E i \in 0..(lastCall.arg - 1) : FitFails(i)) =>
        /\ raised = "FitError"
        /\ returned = None
        /\ \A k \in 1..Len(iteration_details) :
            \A i \in 0..iteration_details[k].iteration : ~FitFails(i)

\* The iterations of the last run whose fit succeeded.
Succeeded == {i \in 0..(lastCall.arg - 1) : ~FitFails(i)}

\* C17: in every summary run_bootstrap returns, n_iterations is the number of
\* iterations that succeeded and the length of reserve_estimates, and each
\* entry of reserve_estimates is the reserve of one of those iterations, in
\* order: none is a padding zero or NaN.
C17_CountsSuccessfulIterations ==
    SummaryReturned =>
        /\ returned.n_iterations = Cardinality(Succeeded)
        /\ returned.n_iterations = Len(returned.reserve_estimates)
        /\ Len(iteration_details) = Len(returned.reserve_estimates)
        /\ \A k \in 1..Len(returned.reserve_estimates) :
            /\ returned.reserve_estimates[k] = iteration_details[k].reserve_estimate
            /\ returned.reserve_estimates[k] # RNaN
            /\ iteration_details[k].iteration \in Succeeded

\* A summary of two iterations.
C17_Witness ==
    /\ SummaryReturned
    /\ returned.n_iterations = 2
    /\ Len(returned.reserve_estimates) = 2


\* ---------------------------------------------------------------------------
\* C18  The residual pool and the fitted triangle over the life of an engine
\* ---------------------------------------------------------------------------

\* The pool a construction computes from the triangle the engine holds after
\* the step.
PoolOfNewTriangle ==
    PoolOf(impl', n_origin', fitted', UnscaledResiduals(impl', actual', fitted'))

\* C18: run_single_iteration and run_bootstrap leave the residual pool (its
\* entries, their order and their adjusted residuals) and the fitted triangle
\* as they were; the only step that replaces the pool is re-initialising the
\* engine with a triangle, and the pool it leaves is the one computed from
\* the new triangle alone: nothing of the old pool stays unless the new
\* triangle yields it.
C18_PoolChangesOnlyOnReinit ==
    [][IF lastCall'.op = "__init__"
       THEN residual_pool' = PoolOfNewTriangle
       ELSE residual_pool' = residual_pool /\ fitted' = fitted]_vars

\* An engine that was re-initialised with a triangle and holds a pool whose
\* entries come from that triangle.
C18_Witness ==
    /\ lastCall = Call("__init__", 1)
    /\ residual_pool # <<>>
    /\ residual_pool = PoolOf(impl, n_origin, fitted, UnscaledResiduals(impl, actual, fitted))


\* ---------------------------------------------------------------------------
\* C19  What run_single_iteration returns
\* ---------------------------------------------------------------------------

ResultKeys == {"iteration", "sampling_details", "bootstrap_incremental",
               "bootstrap_cumulative", "reserve_estimate"}

\* run_single_iteration ended without raising.
SingleIterationReturned == lastCall.op = "run_single_iteration" /\ raised = "none"

\* v is an iteration result of iteration k.
IsResultOf(v, k) ==
    /\ ResultKeys \subseteq DOMAIN v
    /\ v.iteration = k

\* C19: run_single_iteration(k), when it returns, returns an iteration result
\* with the keys iteration, sampling_details, bootstrap_incremental,
\* bootstrap_cumulative and reserve_estimate, whose iteration is k.
C19_ReturnsIterationResult ==
    SingleIterationReturned => IsResultOf(returned, lastCall.arg)

\* The old engine returns such a result, the one it appended to its details.
C19_ReturnsIterationResultOld ==
    (impl = "old" /\ SingleIterationReturned) =>
        /\ IsResultOf(returned, lastCall.arg)
        /\ returned = iteration_details[Len(iteration_details)]

\* The new engine returns nothing; the result of iteration k is in its
\* details only when the call found the details empty or already holding it.
C19_NewEngineReturnsNothing ==
    (impl = "new" /\ lastCall.op = "run_single_iteration") => returned = None


\* ---------------------------------------------------------------------------
\* C20  The timer interval of an animation speed
\* ---------------------------------------------------------------------------

\* The minimum of the speed tenths / 10.
SpecMinimum(tenths) ==
    IF tenths >= 70 THEN 100
    ELSE IF tenths >= 50 THEN 80
    ELSE IF tenths >= 30 THEN 60
    ELSE IF tenths >= 20 THEN 50
    ELSE 40

\* floor(300 / s) for s = tenths / 10, in exact arithmetic.
SpecFloor(tenths) == (300 * 10) \div tenths

IntervalUpdated == lastCall.op = "update_interval_speed"

\* C20: for every speed s of 0.1, 0.2, ..., 10.0, update_interval_speed(s)
\* is the larger of minimum(s) and floor(300 / s), with minimum 100, 80, 60,
\* 50, 40 for s >= 7, >= 5, >= 3, >= 2 and below 2; it is never below 40 and
\* never below 100 when s >= 7.
C20_IntervalOfSpeed ==
    IntervalUpdated =>
        LET tenths == lastCall.arg
            least == SpecMinimum(tenths)
        IN  /\ returned = IF least >= SpecFloor(tenths) THEN least ELSE SpecFloor(tenths)
            /\ returned >= 40
            /\ tenths >= 70 => returned >= 100

\* Speed 0.1, whose double is above 0.1, so that 300 / 0.1 is below 3000
\* before rounding: the interval is 3000.
C20_Witness == lastCall = Call("update_interval_speed", 1) /\ returned = 3000

\* Speed 7.0, where the minimum of 100 replaces int(300 / 7.0) = 42.
C20_WitnessMinimum == lastCall = Call("update_interval_speed", 70) /\ returned = 100


\* ---------------------------------------------------------------------------
\* C21  Triangles with fewer than 2 origin or development periods
\* ---------------------------------------------------------------------------

SmallTriangle == n_origin < 2 \/ n_dev < 2

\* C21: initialising the engine with a triangle of fewer than 2 origin
\* periods or fewer than 2 development periods fails with
\* EmptyTriangleError and leaves no engine state (no pool, no results, no
\* operation possible).
C21_SmallTriangleRejected ==
    SmallTriangle =>
        /\ lastCall.op = "__init__"
        /\ raised = "EmptyTriangleError"
        /\ residual_pool = <<>>
        /\ iteration_details = <<>>

\* What the engines do instead: they never raise EmptyTriangleError; the
\* construction ends with the library's own error or with an engine, which
\* then runs or fails as on any triangle.
C21_NoEmptyTriangleError ==
    /\ raised # "EmptyTriangleError"
    /\ (SmallTriangle /\ lastCall.op = "__init__") => raised \in SmallFitOutcomes


\* ---------------------------------------------------------------------------
\* C22  The order of the sample records of an iteration
\* ---------------------------------------------------------------------------

\* The observed cells of the engine's triangle, row by row.
RowMajorObserved ==
    SelectSeq(CellSeq(n_origin, n_dev), LAMBDA c : c[1] + c[2] < n_origin)

\* The sample records sd are one per cell of cells, in that order, numbered
\* 0, 1, 2, ...
Enumerates(sd, cells) ==
    /\ Len(sd) = Len(cells)
    /\ \A k \in 1..Len(sd) :
        /\ <<sd[k].origin, sd[k].dev>> = cells[k]
        /\ sd[k].sequence = k - 1

\* C22: within one iteration the sample records enumerate every observed
\* cell exactly once in row-major order, and the sequence field of the k-th
\* record is k (0, 1, 2, ... without gap or repeat).
C22_EveryObservedCellOnce ==
    \A d \in 1..Len(iteration_details) :
        Enumerates(iteration_details[d].sampling_details, RowMajorObserved)

\* The new engine does so.
C22_EveryObservedCellOnceNew == impl = "new" => C22_EveryObservedCellOnce

\* The old engine numbers its records 0, 1, 2, ... in row-major order too,
\* but records only the observed cells whose fitted value is positive.
C22_PositiveFittedCellsOnceOld ==
    impl = "old" =>
        \A d \in 1..Len(iteration_details) :
            Enumerates(iteration_details[d].sampling_details,
                       SelectSeq(RowMajorObserved, LAMBDA c : fitted[c] > 0))


\* ---------------------------------------------------------------------------
\* C23  run_single_iteration(k) makes iteration k available
\* ---------------------------------------------------------------------------

\* C23: after run_single_iteration(k) returns on the current engine
\* (bootstrap_engine.py), iteration_details has more than k entries, whatever
\* number of entries it held before the call.
C23_IterationAvailable ==
    (impl = "new" /\ SingleIterationReturned) => Len(iteration_details) > lastCall.arg

\* What the engine does: the call leaves more than k entries when it found
\* none or found more than k; when it found some but at most k, it runs
\* run_bootstrap(k + 1 - len), which clears the details and leaves only
\* k + 1 - len of them.
C23_AvailableFromEmptyOrPresent ==
    [][(/\ impl = "new"
        /\ lastCall'.op = "run_single_iteration"
        /\ raised' = "none")
       => Len(iteration_details') =
             IF Len(iteration_details) > lastCall'.arg THEN Len(iteration_details)
             ELSE lastCall'.arg + 1 - Len(iteration_details)]_vars


\* C24: after any sequence of run_bootstrap, run_single_iteration, Reset
\* and dataset changes, iteration_details and reserve_estimates have the
\* same length, and reserve_estimates[k] is the reserve_estimate of
\* iteration_details[k] for every k.
C24_DetailsAndReservesParallel ==
    /\ Len(iteration_details) = Len(reserve_estimates)
    /\ \A k \in 1..Len(iteration_details) :
            reserve_estimates[k] = iteration_details[k].reserve_estimate

\* A Reset has emptied the lists and the engine has run again since.
C24_Witness ==
    /\ triggered_id = "reset-button"
    /\ lastCall.op \in {"run_bootstrap", "run_single_iteration"}
    /\ Len(iteration_details) = MaxIter
    /\ Len(reserve_estimates) = MaxIter


\* C25: in every state of a browser session (Play, Step, Reset, Run All,
\* ticks, slider moves, dataset changes, page loads), a store with is_playing
\* has bootstrap_complete, and a store with bootstrap_complete has an engine
\* holding at least n_iterations iteration details.
C25_PlayingCompleteAndFilled ==
    /\ store.is_playing => store.bootstrap_complete
    /\ store.bootstrap_complete => Len(iteration_details) >= store.n_iterations


\* The playback is at its end: current_iteration has reached n_iterations or
\* the end of iteration_details.
AtEnd ==
    \/ store.current_iteration >= store.n_iterations
    \/ store.current_iteration >= Len(iteration_details)

\* C26: playback stops when all iterations are done: whenever the store is
\* playing at the end, eventually is_playing is false and the interval timer
\* is disabled, also when Play is pressed again after playback has finished.
C26_PlaybackStops ==
    (store.is_playing /\ AtEnd) ~> (~store.is_playing /\ interval_disabled)


\* C27: after any sequence of UI events the play button reads 'Pause'
\* (colour warning) exactly when the store's is_playing is true, and 'Play'
\* (colour success) exactly when it is false.
C27_ButtonShowsPlaying ==
    /\ play_button = PauseFace <=> store.is_playing
    /\ play_button = PlayFace <=> ~store.is_playing

\* C27, the button after control_playback: the callback writes the store and
\* the button together, and then they agree.
C27_ButtonAgreesAfterPlayback ==
    (lastCall.op = "control_playback" /\ raised = "none") => C27_ButtonShowsPlaying

\* C27, the toggle: a Play click that ends without an exception negates
\* is_playing, so two in a row restore it.
C27_PlayToggles ==
    [][(Play /\ raised' = "none") => store'.is_playing = ~store.is_playing]_vars


\* update_visualization has just drawn an iteration.
IterationShown ==
    /\ lastCall.op = "update_visualization"
    /\ raised = "none"
    /\ shown # ReadyToStart

\* C28: update_visualization never reads iteration_details or an iteration's
\* sampling_details at an index outside its bounds, and the reserves it
\* displays are exactly the estimates of iterations 0 .. current_iteration,
\* the iteration its progress text names.
C28_ReadsInBoundsShowsReserves ==
    /\ raised # "IndexError"
    /\ IterationShown =>
            /\ Len(shown.reserves_so_far) = shown.iteration
            /\ \A k \in 1..Len(shown.reserves_so_far) :
                    /\ k <= Len(iteration_details)
                    /\ shown.reserves_so_far[k] = iteration_details[k].reserve_estimate

\* C28, the reads: no read of update_visualization is out of bounds, and the
\* reserves shown are the estimates of the first iterations the engine holds.
C28_ReadsInBounds ==
    /\ raised # "IndexError"
    /\ IterationShown =>
            /\ Len(shown.reserves_so_far) <= shown.iteration
            /\ shown.reserves_so_far =
                    SubSeq(reserve_estimates, 1, Len(shown.reserves_so_far))


\* A Step click, or a tick of the timer while the store is playing.
PlaybackEvent == Step \/ (Tick /\ store.is_playing)

\* The number of sampled cells of the store's current iteration.
NCells == Len(iteration_details[store.current_iteration + 1].sampling_details)

\* One frame on: the next cell, or the first cell of the next iteration.
FrameOn ==
    \/ /\ store'.current_frame = store.current_frame + 1
       /\ store'.current_frame < NCells
       /\ store'.current_iteration = store.current_iteration
    \/ /\ store.current_frame + 1 >= NCells
       /\ store'.current_frame = 0
       /\ store'.current_iteration = store.current_iteration + 1

IterationOn == store'.current_iteration = store.current_iteration + 1

Stays == /\ store'.current_iteration = store.current_iteration
         /\ store'.current_frame = store.current_frame

\* current_frame is a cell of every iteration the engine holds.
FrameInBounds ==
    /\ store.current_frame >= 0
    /\ \A k \in 1..Len(iteration_details) :
            store.current_frame < Len(iteration_details[k].sampling_details)

\* What a step of the animation does to a store with bootstrap_complete whose
\* current iteration the engine holds (has, when the precondition is asked
\* for), and what the other updates do.
Animates(has) ==
    /\ (PlaybackEvent /\ store.bootstrap_complete /\ has) =>
            /\ store.current_iteration < Len(iteration_details)
            /\ IF show_cell_anim THEN FrameOn ELSE IterationOn
    /\ StoreChanged => Stays
    /\ (~store.bootstrap_complete /\ (Step \/ Tick)) => Stays

\* C29: with cell animation on each Step click or playing tick advances
\* current_frame by one, moving to the next iteration with current_frame = 0
\* when it reaches the number of sampled cells, so 0 <= current_frame <
\* n_cells always; with cell animation off each such event advances
\* current_iteration by one; an update triggered by the store advances
\* neither, and nothing advances while bootstrap_complete is false.
C29_EveryEventAdvances == []FrameInBounds /\ [][Animates(TRUE)]_vars

\* C29, for the events that find their iteration in the engine: an event on
\* a store whose current_iteration is below len(iteration_details).
C29_EventsInsideAdvance ==
    []FrameInBounds /\
    [][Animates(store.current_iteration < Len(iteration_details))]_vars


\* A Step click with the cell animation on has just moved from the last cell
\* of the first iteration to the first cell of the second.
C29_Witness ==
    /\ lastCall.op = "update_visualization"
    /\ triggered_id = "step-button"
    /\ raised = "none"
    /\ show_cell_anim
    /\ store.bootstrap_complete
    /\ store.current_iteration = 1
    /\ store.current_frame = 0
    /\ Len(iteration_details) = 2
    /\ shown.progress_text = "Sampling cell"
    /\ shown.iteration = 2


\* Reset has run and update_visualization has not run since.
AfterReset == triggered_id = "reset-button" /\ "update_visualization" \in pending

\* C30: Reset, from any state, empties the engine's iteration_details and
\* reserve_estimates and sets the store to current_iteration 0, current_frame
\* 0, is_playing false, bootstrap_complete false with the button reading
\* 'Play', leaving the triangle, the fitted triangle and the residual pool
\* unchanged; the next update_visualization shows the empty 'Ready to start'
\* state.
C30_ResetStartsOver ==
    [][/\ Reset =>
            /\ iteration_details' = <<>>
            /\ reserve_estimates' = <<>>
            /\ store'.current_iteration = 0
            /\ store'.current_frame = 0
            /\ ~store'.is_playing
            /\ ~store'.bootstrap_complete
            /\ play_button'.children = "Play"
            /\ UNCHANGED <<n_origin, n_dev, actual, fitted, residual_pool>>
       /\ (AfterReset /\ StoreChanged) =>
            /\ raised' = "none"
            /\ shown' = ReadyToStart
            /\ store' = store]_vars

\* Reset has just emptied an engine that had run the bootstrap, with the page
\* still showing its second iteration.
C30_Witness ==
    /\ lastCall.op = "control_playback"
    /\ triggered_id = "reset-button"
    /\ iteration_details = <<>>
    /\ reserve_estimates = <<>>
    /\ scale_parameter # None
    /\ residual_pool # <<>>
    /\ shown.iteration = 2
    /\ ~store.bootstrap_complete
    /\ play_button = PlayFace

=============================================================================
